---- MODULE Spec2Model ----
(***************************************************************************)
(* Model of the credential-vault cryptographic engine                      *)
(* (src/src/lib/crypto-advanced.ts, class AdvancedCryptoManager).          *)
(*                                                                         *)
(* Strings are sequences of UTF-16 code units, binary buffers are          *)
(* sequences of bytes (0..255), base64 strings are sequences of alphabet   *)
(* indices.  The Web Crypto primitives are idealised:                      *)
(*   - PBKDF2 is an injective function of (password bytes, salt,           *)
(*     iterations, key length): a CryptoKey is the record of its inputs;   *)
(*   - AES-GCM is an ideal authenticated cipher: a ciphertext opens only   *)
(*     under the key and nonce that sealed it, and every byte string that  *)
(*     was not produced by a seal is rejected;                             *)
(*   - SHA-256 is collision free: a digest is the record of its preimage;  *)
(*   - crypto.getRandomValues never repeats a value.                       *)
(***************************************************************************)
EXTENDS Integers, Sequences, FiniteSets, TLC

VARIABLES
  keyCache,           \* AdvancedCryptoManager.keyCache
  now,                \* Date.now(), in milliseconds
  rng,                \* number of crypto.getRandomValues draws made so far
  sealed,             \* the (key, iv, plaintext) triples AES-GCM has sealed
  defaultIterations,  \* appConfig.security.encryptionIterations
  envs,               \* the envelopes produced so far, with what they hold
  res,                \* the last call made on the manager and its outcome
  cnt,                \* number of calls made, per kind
  hist,               \* per argument list of deriveKeyFromPassword: the
                      \* last direct call made with it
  auth,               \* the SecureAuthManager instance, the device it runs
                      \* on and the records it has returned
  cfg,                \* process.env, the ConfigManager instance and the
                      \* configuration the appConfig proxy has cached
  tasks,              \* the asynchronous calls in flight, each with the
                      \* await it is suspended at and its local variables
  store,              \* the object store of SecureIndexedDBManager
  provider            \* the state of the AuthProvider component

vars ==
  <<keyCache, now, rng, sealed, defaultIterations, envs, res, cnt, hist, auth,
    cfg, tasks, store, provider>>

(***************************************************************************)
(* Bounds of the model                                                     *)
(***************************************************************************)
MaxOps == 3
MaxEnc == 1
MaxTicks == 1
MaxSessions == 1
PreFill == 9
MaxFill == 2
MaxCacheDerive == 2
MaxStoredOps == 1
MaxLimitCalls == 2
MaxAuthOps == 3
MaxSerialOps == 1
MaxCacheTicks == 2
MaxFreshEnc == 2
MaxPieces == 3
MaxConfigOps == 2
MaxTasks == 2
MaxStorageOps == 3
MaxProviderCalls == 3

(***************************************************************************)
(* Program constants                                                       *)
(***************************************************************************)
DEFAULT_KEY_LENGTH == 256
DEFAULT_SALT_LENGTH == 32
DEFAULT_IV_LENGTH == 12
ENCRYPTION_VERSION == "2.0.0"
maxCacheSize == 10
CacheTTL == 300000
MinIterations == 10000
MaxIterations == 10000000
FallbackIterations == 300000
CachePrefixLen == 8
GcmTagLength == 16

(***************************************************************************)
(* Error messages                                                          *)
(***************************************************************************)
ErrPasswordEmpty == "Password must be a non-empty string"
ErrIterLow == "Iteration count too low for security (minimum 10,000)"
ErrIterHigh == "Iteration count too high (maximum 10,000,000)"
ErrDerive == "Failed to derive encryption key"
ErrEncrypt == "Failed to encrypt data"
ErrDecrypt == "Failed to decrypt data - invalid password or corrupted data"
ErrEncryptWithKey == "Failed to encrypt data with provided key"
ErrDecryptWithKey == "Failed to decrypt data with provided key"
ErrIntegrity == "Data integrity check failed"

Min(a, b) == IF a < b THEN a ELSE b

(***************************************************************************)
(* Text encoding: TextEncoder.encode and TextDecoder.decode (UTF-8).       *)
(***************************************************************************)
IsHighSurrogate(u) == u >= 55296 /\ u <= 56319
IsLowSurrogate(u) == u >= 56320 /\ u <= 57343
ReplacementChar == 65533
ByteOrderMark == 65279

\* UTF-8 bytes of one Unicode scalar value
Utf8OfCodePoint(cp) ==
  IF cp < 128 THEN <<cp>>
  ELSE IF cp < 2048 THEN <<192 + (cp \div 64), 128 + (cp % 64)>>
  ELSE IF cp < 65536
    THEN <<224 + (cp \div 4096), 128 + ((cp \div 64) % 64), 128 + (cp % 64)>>
  ELSE <<240 + (cp \div 262144), 128 + ((cp \div 4096) % 64),
         128 + ((cp \div 64) % 64), 128 + (cp % 64)>>

\* TextEncoder.encode: the string is first converted to scalar values, a
\* surrogate pair becomes one code point and a lone surrogate becomes U+FFFD
RECURSIVE TextEncodeFrom(_, _)
TextEncodeFrom(s, i) ==
  IF i > Len(s) THEN <<>>
  ELSE IF IsHighSurrogate(s[i]) /\ i < Len(s) /\ IsLowSurrogate(s[i + 1])
    THEN Utf8OfCodePoint(65536 + (s[i] - 55296) * 1024 + (s[i + 1] - 56320))
           \o TextEncodeFrom(s, i + 2)
  ELSE IF IsHighSurrogate(s[i]) \/ IsLowSurrogate(s[i])
    THEN Utf8OfCodePoint(ReplacementChar) \o TextEncodeFrom(s, i + 1)
  ELSE Utf8OfCodePoint(s[i]) \o TextEncodeFrom(s, i + 1)

TextEncode(s) == TextEncodeFrom(s, 1)

IsCont(b, i) == i <= Len(b) /\ b[i] >= 128 /\ b[i] <= 191

\* UTF-16 code units of one code point
Utf16OfCodePoint(cp) ==
  IF cp < 65536 THEN <<cp>>
  ELSE <<55296 + ((cp - 65536) \div 1024), 56320 + ((cp - 65536) % 1024)>>

\* UTF-8 decoding with replacement of ill-formed sequences
RECURSIVE Utf8DecodeFrom(_, _)
Utf8DecodeFrom(b, i) ==
  IF i > Len(b) THEN <<>>
  ELSE IF b[i] < 128 THEN <<b[i]>> \o Utf8DecodeFrom(b, i + 1)
  ELSE IF b[i] >= 194 /\ b[i] <= 223 /\ IsCont(b, i + 1)
    THEN <<(b[i] - 192) * 64 + (b[i + 1] - 128)>> \o Utf8DecodeFrom(b, i + 2)
  ELSE IF b[i] >= 224 /\ b[i] <= 239 /\ IsCont(b, i + 1) /\ IsCont(b, i + 2)
          /\ (b[i] = 224 => b[i + 1] >= 160)
          /\ (b[i] = 237 => b[i + 1] <= 159)
    THEN <<(b[i] - 224) * 4096 + (b[i + 1] - 128) * 64 + (b[i + 2] - 128)>>
           \o Utf8DecodeFrom(b, i + 3)
  ELSE IF b[i] >= 240 /\ b[i] <= 244 /\ IsCont(b, i + 1) /\ IsCont(b, i + 2)
          /\ IsCont(b, i + 3)
          /\ (b[i] = 240 => b[i + 1] >= 144)
          /\ (b[i] = 244 => b[i + 1] <= 143)
    THEN Utf16OfCodePoint((b[i] - 240) * 262144 + (b[i + 1] - 128) * 4096
                          + (b[i + 2] - 128) * 64 + (b[i + 3] - 128))
           \o Utf8DecodeFrom(b, i + 4)
  ELSE <<ReplacementChar>> \o Utf8DecodeFrom(b, i + 1)

\* new TextDecoder().decode: the default decoder (ignoreBOM = false) drops
\* a byte order mark at the start of the input
TextDecode(b) ==
  IF Len(b) >= 3 /\ b[1] = 239 /\ b[2] = 187 /\ b[3] = 191
    THEN Utf8DecodeFrom(b, 4)
    ELSE Utf8DecodeFrom(b, 1)

(***************************************************************************)
(* base64: arrayBufferToBase64 (btoa) and base64ToArrayBuffer (atob).      *)
(* A base64 string is a sequence over 0..63 (the alphabet), Pad ('=') and  *)
(* BadChar (a character outside the alphabet).                             *)
(***************************************************************************)
Pad == 64
BadChar == 65

RECURSIVE Btoa(_, _)
Btoa(b, i) ==
  IF i > Len(b) THEN <<>>
  ELSE IF i + 2 <= Len(b)
    THEN <<b[i] \div 4, (b[i] % 4) * 16 + (b[i + 1] \div 16),
           (b[i + 1] % 16) * 4 + (b[i + 2] \div 64), b[i + 2] % 64>>
           \o Btoa(b, i + 3)
  ELSE IF i + 1 = Len(b)
    THEN <<b[i] \div 4, (b[i] % 4) * 16 + (b[i + 1] \div 16),
           (b[i + 1] % 16) * 4, Pad>>
  ELSE <<b[i] \div 4, (b[i] % 4) * 16, Pad, Pad>>

arrayBufferToBase64(buffer) == Btoa(buffer, 1)

\* atob step 1: when the length is a multiple of 4, up to two trailing '='
\* are removed
StripPad(s) ==
  IF Len(s) % 4 = 0 /\ Len(s) >= 1 /\ s[Len(s)] = Pad
    THEN IF Len(s) >= 2 /\ s[Len(s) - 1] = Pad
           THEN SubSeq(s, 1, Len(s) - 2)
           ELSE SubSeq(s, 1, Len(s) - 1)
    ELSE s

\* atob step 2: a remaining length of 1 mod 4, or any character outside the
\* alphabet, is an InvalidCharacterError
AtobValid(s) ==
  LET t == StripPad(s) IN
    /\ Len(t) % 4 # 1
    /\ \A i \in 1..Len(t) : t[i] < Pad

\* atob step 3: groups of four characters give three bytes; the left-over
\* bits of a final group of two or three characters are discarded
RECURSIVE AtobFrom(_, _)
AtobFrom(t, i) ==
  IF i > Len(t) THEN <<>>
  ELSE IF i + 3 <= Len(t)
    THEN <<t[i] * 4 + (t[i + 1] \div 16),
           (t[i + 1] % 16) * 16 + (t[i + 2] \div 4),
           (t[i + 2] % 4) * 64 + t[i + 3]>> \o AtobFrom(t, i + 4)
  ELSE IF i + 2 = Len(t)
    THEN <<t[i] * 4 + (t[i + 1] \div 16),
           (t[i + 1] % 16) * 16 + (t[i + 2] \div 4)>>
  ELSE <<t[i] * 4 + (t[i + 1] \div 16)>>

base64ToArrayBuffer(base64) == AtobFrom(StripPad(base64), 1)

(***************************************************************************)
(* Idealised primitives                                                    *)
(***************************************************************************)
\* a generator that hands out the same bytes at every draw
RandomBytesConstant(n, len) == [i \in 1..len |-> 0]
\* crypto.getRandomValues(new Uint8Array(len)): the n-th draw
RandomBytes(n, len) == [i \in 1..len |-> n]

\* crypto.subtle.digest('SHA-256', bytes)
Sha256(bytes) == [sha256 |-> bytes]

\* crypto.subtle.importKey + deriveKey (PBKDF2, SHA-256, AES-GCM key)
ValidKeyLengths == {128, 192, 256}
Pbkdf2Ok(iterations, keyLength) == iterations > 0 /\ keyLength \in ValidKeyLengths
Pbkdf2(passwordBytes, salt, iterations, keyLength) ==
  [pw |-> passwordBytes, salt |-> salt, iterations |-> iterations,
   length |-> keyLength]

\* crypto.subtle.encrypt under AES-GCM: the ciphertext of the n-th sealed
\* (key, iv, plaintext) triple is Len(plaintext) + 16 bytes
SealIndex(tbl, k, iv, pt) ==
  IF \E n \in 1..Len(tbl) : tbl[n] = [k |-> k, iv |-> iv, pt |-> pt]
    THEN CHOOSE n \in 1..Len(tbl) : tbl[n] = [k |-> k, iv |-> iv, pt |-> pt]
    ELSE Len(tbl) + 1
SealTable(tbl, k, iv, pt) ==
  IF SealIndex(tbl, k, iv, pt) <= Len(tbl) THEN tbl
  ELSE Append(tbl, [k |-> k, iv |-> iv, pt |-> pt])
CipherBytes(n, pt) == [i \in 1..(Len(pt) + GcmTagLength) |-> n]
AesGcmEncryptOk(algorithm, iv) == algorithm = "AES-GCM" /\ Len(iv) >= 1

\* crypto.subtle.decrypt under AES-GCM: the tag verifies only for bytes
\* that were sealed under the same key and nonce
OpenIndex(tbl, k, iv, ct) ==
  {n \in 1..Len(tbl) : /\ tbl[n].k = k
                       /\ tbl[n].iv = iv
                       /\ CipherBytes(n, tbl[n].pt) = ct}
AesGcmDecryptOk(tbl, algorithm, k, iv, ct) ==
  algorithm = "AES-GCM" /\ Len(iv) >= 1 /\ OpenIndex(tbl, k, iv, ct) # {}
AesGcmDecrypt(tbl, k, iv, ct) ==
  tbl[CHOOSE n \in OpenIndex(tbl, k, iv, ct) : TRUE].pt

(***************************************************************************)
(* The key cache: a JavaScript Map, i.e. key/value pairs in insertion      *)
(* order; set on a present key keeps its position.                         *)
(***************************************************************************)
MapHas(m, k) == \E i \in 1..Len(m) : m[i].k = k
MapIndex(m, k) == CHOOSE i \in 1..Len(m) : m[i].k = k
MapGet(m, k) == m[MapIndex(m, k)].v
MapSet(m, k, v) ==
  IF MapHas(m, k) THEN [m EXCEPT ![MapIndex(m, k)].v = v]
  ELSE Append(m, [k |-> k, v |-> v])
MapDelete(m, k) ==
  IF MapHas(m, k)
    THEN [i \in 1..(Len(m) - 1) |->
            IF i < MapIndex(m, k) THEN m[i] ELSE m[i + 1]]
    ELSE m
MapKeys(m) == {m[i].k : i \in 1..Len(m)}

(***************************************************************************)
(* Private helpers of AdvancedCryptoManager                                *)
(***************************************************************************)
NoError == ""

validatePassword(password) ==
  IF Len(password) = 0 THEN ErrPasswordEmpty ELSE NoError

validateIterationsStrict(iterations) ==
  IF iterations <= MinIterations THEN ErrIterLow
  ELSE IF iterations >= MaxIterations THEN ErrIterHigh
  ELSE NoError

validateIterations(iterations) ==
  IF iterations < MinIterations THEN ErrIterLow
  ELSE IF iterations > MaxIterations THEN ErrIterHigh
  ELSE NoError

requiredFieldsSwapped ==
  <<"iv", "data", "salt", "iterations", "algorithm", "checksum">>

requiredFields == <<"data", "iv", "salt", "iterations", "algorithm", "checksum">>

MissingFieldError(field) ==
  CASE field = "data" -> "Missing required field: data"
    [] field = "iv" -> "Missing required field: iv"
    [] field = "salt" -> "Missing required field: salt"
    [] field = "iterations" -> "Missing required field: iterations"
    [] field = "algorithm" -> "Missing required field: algorithm"
    [] field = "checksum" -> "Missing required field: checksum"

validateEncryptedPayload(payload) ==
  LET missing == {i \in 1..Len(requiredFields) :
                    requiredFields[i] \notin DOMAIN payload}
  IN IF missing = {} THEN NoError
     ELSE MissingFieldError(
            requiredFields[CHOOSE i \in missing : \A j \in missing : i <= j])

\* decimal digits of a number, as String(n) gives them
RECURSIVE Decimal(_)
Decimal(n) ==
  IF n < 10 THEN <<48 + n>> ELSE Decimal(n \div 10) \o <<48 + (n % 10)>>

\* Array.from(bytes).join('')
RECURSIVE JoinDecimal(_, _)
JoinDecimal(bytes, i) ==
  IF i > Len(bytes) THEN <<>>
  ELSE Decimal(bytes[i]) \o JoinDecimal(bytes, i + 1)

Dash == 45

createCacheKey(password, salt, iterations) ==
  LET passwordHash == SubSeq(password, 1, Min(CachePrefixLen, Len(password)))
      saltHash == JoinDecimal(SubSeq(salt, 1, Min(CachePrefixLen, Len(salt))), 1)
  IN passwordHash \o <<Dash>> \o saltHash \o <<Dash>> \o Decimal(iterations)

\* a cached key is served while it is younger than the time-to-live
cacheFreshHalf(t, cached) == (t - cached.timestamp) < (CacheTTL \div 2)

cacheFresh(t, cached) == (t - cached.timestamp) < CacheTTL

\* a cache that evicts only once it is over its capacity
cacheKeyLate(cache, ck, secureKey) ==
  LET afterEvict == IF Len(cache) > maxCacheSize
                      THEN MapDelete(cache, cache[1].k)
                      ELSE cache
  IN MapSet(afterEvict, ck, secureKey)

\* cacheKey(cacheKey, secureKey): evict the oldest entry of a full cache,
\* then store the key
cacheKey(cache, ck, secureKey) ==
  LET afterEvict == IF Len(cache) >= maxCacheSize
                      THEN MapDelete(cache, cache[1].k)
                      ELSE cache
  IN MapSet(afterEvict, ck, secureKey)

calculateChecksumNoSalt(data, salt, iv) == Sha256(data \o iv)

calculateChecksum(data, salt, iv) == Sha256(data \o salt \o iv)

\* the comparison of the recomputed checksum with the one in the payload
checksumMismatchIgnored(expectedChecksum, payload) == FALSE

checksumMismatch(expectedChecksum, payload) ==
  expectedChecksum # payload.checksum

\* the catch block of decryptData: whatever was caught, the caller gets
\* one message
decryptFailureLeaky(cause) == cause

decryptFailure(cause) == ErrDecrypt

\* the catch block of decryptDataWithKey
decryptWithKeyFailure(cause) == ErrDecryptWithKey

(***************************************************************************)
(* deriveKeyFromPassword(password, options) at time t with key cache       *)
(* `cache`, r random draws made so far and default iteration count dflt.   *)
(* The result gives the outcome, the new cache and draw count, and the     *)
(* primitive calls made, in order.                                         *)
(***************************************************************************)
deriveKeyFromPassword(cache, r, t, dflt, password, options) ==
  LET iterations == IF "iterations" \in DOMAIN options
                      THEN options.iterations ELSE dflt
      genSalt == "salt" \notin DOMAIN options
      r1 == IF genSalt THEN r + 1 ELSE r
      salt == IF genSalt THEN RandomBytes(r + 1, DEFAULT_SALT_LENGTH)
              ELSE options.salt
      keyLength == IF "keyLength" \in DOMAIN options
                     THEN options.keyLength ELSE DEFAULT_KEY_LENGTH
      calls0 == IF genSalt THEN <<"getRandomValues">> ELSE <<>>
      Fail(e, calls) == [ok |-> FALSE, err |-> e, val |-> <<>>,
                         cache |-> cache, rng |-> r1, calls |-> calls]
      ck == createCacheKey(password, salt, iterations)
      hit == MapHas(cache, ck) /\ cacheFresh(t, MapGet(cache, ck))
      secureKey == [key |-> Pbkdf2(TextEncode(password), salt, iterations,
                                   keyLength),
                    salt |-> salt, iterations |-> iterations,
                    algorithm |-> "PBKDF2", keyLength |-> keyLength,
                    timestamp |-> t]
  IN IF validatePassword(password) # NoError
       THEN Fail(validatePassword(password), calls0)
     ELSE IF validateIterations(iterations) # NoError
       THEN Fail(validateIterations(iterations), calls0)
     ELSE IF hit
       THEN [ok |-> TRUE, err |-> NoError, val |-> MapGet(cache, ck),
             cache |-> cache, rng |-> r1,
             calls |-> calls0 \o <<"keyCache.get">>]
     ELSE IF ~Pbkdf2Ok(iterations, keyLength)
       THEN Fail(ErrDerive,
                 calls0 \o <<"keyCache.get", "importKey", "deriveKey">>)
     ELSE [ok |-> TRUE, err |-> NoError, val |-> secureKey,
           cache |-> cacheKey(cache, ck, secureKey), rng |-> r1,
           calls |-> calls0 \o <<"keyCache.get", "importKey", "deriveKey",
                                 "keyCache.set">>]

(***************************************************************************)
(* encryptData(plaintext, password, options)                               *)
(***************************************************************************)
encryptData(cache, r, t, dflt, tbl, plaintext, password, options) ==
  LET algorithm == IF "algorithm" \in DOMAIN options
                     THEN options.algorithm ELSE "AES-GCM"
      keyLength == IF "keyLength" \in DOMAIN options
                     THEN options.keyLength ELSE DEFAULT_KEY_LENGTH
      ivLength == IF "ivLength" \in DOMAIN options
                    THEN options.ivLength ELSE DEFAULT_IV_LENGTH
      salt == RandomBytes(r + 1, DEFAULT_SALT_LENGTH)
      iv == RandomBytes(r + 2, ivLength)
      d == deriveKeyFromPassword(cache, r + 2, t, dflt, password,
                                 [salt |-> salt, keyLength |-> keyLength])
      encodedData == TextEncode(plaintext)
      n == SealIndex(tbl, d.val.key, iv, encodedData)
      encryptedBuffer == CipherBytes(n, encodedData)
      payload == [data |-> arrayBufferToBase64(encryptedBuffer),
                  iv |-> arrayBufferToBase64(iv),
                  salt |-> arrayBufferToBase64(salt),
                  iterations |-> d.val.iterations,
                  algorithm |-> algorithm,
                  keyLength |-> keyLength,
                  version |-> ENCRYPTION_VERSION,
                  checksum |-> calculateChecksum(encryptedBuffer, salt, iv)]
      rand2 == <<"getRandomValues", "getRandomValues">>
      Fail(e, c, rr, calls) ==
        [ok |-> FALSE, err |-> e, val |-> <<>>, cache |-> c, rng |-> rr,
         sealed |-> tbl, calls |-> calls]
  IN IF validatePassword(password) # NoError
       THEN Fail(validatePassword(password), cache, r, <<>>)
     ELSE IF ~d.ok
       THEN Fail(ErrEncrypt, d.cache, d.rng, rand2 \o d.calls)
     ELSE IF ~AesGcmEncryptOk(algorithm, iv)
       THEN Fail(ErrEncrypt, d.cache, d.rng, rand2 \o d.calls \o <<"encrypt">>)
     ELSE [ok |-> TRUE, err |-> NoError, val |-> payload, cache |-> d.cache,
           rng |-> d.rng,
           sealed |-> SealTable(tbl, d.val.key, iv, encodedData),
           calls |-> rand2 \o d.calls \o <<"encrypt", "digest">>]

(***************************************************************************)
(* decryptData(encryptedPayload, password).  `cause` is the error caught   *)
(* and logged inside the method, `err` the one the caller receives.        *)
(***************************************************************************)
CipherFailure == "OperationError"
DecodeFailure == "InvalidCharacterError"

decryptData(cache, r, t, dflt, tbl, encryptedPayload, password) ==
  LET Fail(e, cause, c, calls) ==
        [ok |-> FALSE, err |-> e, cause |-> cause, val |-> <<>>,
         cache |-> c, rng |-> r, calls |-> calls]
      encryptedData == base64ToArrayBuffer(encryptedPayload.data)
      iv == base64ToArrayBuffer(encryptedPayload.iv)
      salt == base64ToArrayBuffer(encryptedPayload.salt)
      expectedChecksum == calculateChecksum(encryptedData, salt, iv)
      keyOpts == IF "keyLength" \in DOMAIN encryptedPayload
                   THEN [salt |-> salt,
                         iterations |-> encryptedPayload.iterations,
                         keyLength |-> encryptedPayload.keyLength]
                   ELSE [salt |-> salt,
                         iterations |-> encryptedPayload.iterations]
      d == deriveKeyFromPassword(cache, r, t, dflt, password, keyOpts)
      pre == <<"atob", "atob", "atob", "digest">>
  IN IF validateEncryptedPayload(encryptedPayload) # NoError
       THEN Fail(validateEncryptedPayload(encryptedPayload),
                 validateEncryptedPayload(encryptedPayload), cache, <<>>)
     ELSE IF validatePassword(password) # NoError
       THEN Fail(validatePassword(password), validatePassword(password),
                 cache, <<>>)
     ELSE IF ~AtobValid(encryptedPayload.data)
       THEN Fail(decryptFailure(DecodeFailure), DecodeFailure, cache,
                 <<"atob">>)
     ELSE IF ~AtobValid(encryptedPayload.iv)
       THEN Fail(decryptFailure(DecodeFailure), DecodeFailure, cache,
                 <<"atob", "atob">>)
     ELSE IF ~AtobValid(encryptedPayload.salt)
       THEN Fail(decryptFailure(DecodeFailure), DecodeFailure, cache,
                 <<"atob", "atob", "atob">>)
     ELSE IF checksumMismatch(expectedChecksum, encryptedPayload)
       THEN Fail(decryptFailure(ErrIntegrity), ErrIntegrity, cache, pre)
     ELSE IF ~d.ok
       THEN Fail(decryptFailure(d.err), d.err, d.cache, pre \o d.calls)
     ELSE IF ~AesGcmDecryptOk(tbl, encryptedPayload.algorithm, d.val.key, iv,
                              encryptedData)
       THEN Fail(decryptFailure(CipherFailure), CipherFailure, d.cache,
                 pre \o d.calls \o <<"decrypt">>)
     ELSE [ok |-> TRUE, err |-> NoError, cause |-> NoError,
           val |-> TextDecode(AesGcmDecrypt(tbl, d.val.key, iv, encryptedData)),
           cache |-> d.cache, rng |-> r,
           calls |-> pre \o d.calls \o <<"decrypt">>]

(***************************************************************************)
(* encryptDataWithKey(plaintext, cryptoKey)                                *)
(***************************************************************************)
encryptDataWithKey(r, tbl, plaintext, cryptoKey) ==
  LET iv == RandomBytes(r + 1, DEFAULT_IV_LENGTH)
      encodedData == TextEncode(plaintext)
      n == SealIndex(tbl, cryptoKey, iv, encodedData)
      encryptedBuffer == CipherBytes(n, encodedData)
      salt == RandomBytes(r + 2, DEFAULT_SALT_LENGTH)
      payload == [data |-> arrayBufferToBase64(encryptedBuffer),
                  iv |-> arrayBufferToBase64(iv),
                  salt |-> arrayBufferToBase64(salt),
                  iterations |-> 0,
                  algorithm |-> "AES-GCM",
                  keyLength |-> 256,
                  version |-> ENCRYPTION_VERSION,
                  checksum |-> calculateChecksum(encryptedBuffer, salt, iv)]
  IN [ok |-> TRUE, err |-> NoError, val |-> payload, rng |-> r + 2,
      sealed |-> SealTable(tbl, cryptoKey, iv, encodedData),
      calls |-> <<"getRandomValues", "encrypt", "getRandomValues", "digest">>]

(***************************************************************************)
(* decryptDataWithKey(payload, cryptoKey)                                  *)
(***************************************************************************)
decryptDataWithKey(tbl, payload, cryptoKey) ==
  LET Fail(e, cause, calls) ==
        [ok |-> FALSE, err |-> e, cause |-> cause, val |-> <<>>,
         calls |-> calls]
      encryptedData == base64ToArrayBuffer(payload.data)
      iv == base64ToArrayBuffer(payload.iv)
      salt == base64ToArrayBuffer(payload.salt)
      expectedChecksum == calculateChecksum(encryptedData, salt, iv)
      pre == <<"atob", "atob", "atob", "digest">>
  IN IF validateEncryptedPayload(payload) # NoError
       THEN Fail(validateEncryptedPayload(payload),
                 validateEncryptedPayload(payload), <<>>)
     ELSE IF ~AtobValid(payload.data)
       THEN Fail(decryptWithKeyFailure(DecodeFailure), DecodeFailure, <<"atob">>)
     ELSE IF ~AtobValid(payload.iv)
       THEN Fail(decryptWithKeyFailure(DecodeFailure), DecodeFailure, <<"atob", "atob">>)
     ELSE IF ~AtobValid(payload.salt)
       THEN Fail(decryptWithKeyFailure(DecodeFailure), DecodeFailure, <<"atob", "atob", "atob">>)
     ELSE IF checksumMismatch(expectedChecksum, payload)
       THEN Fail(decryptWithKeyFailure(ErrIntegrity), ErrIntegrity, pre)
     ELSE IF ~AesGcmDecryptOk(tbl, "AES-GCM", cryptoKey, iv, encryptedData)
       THEN Fail(decryptWithKeyFailure(CipherFailure), CipherFailure,
                 pre \o <<"decrypt">>)
     ELSE [ok |-> TRUE, err |-> NoError, cause |-> NoError,
           val |-> TextDecode(AesGcmDecrypt(tbl, cryptoKey, iv, encryptedData)),
           calls |-> pre \o <<"decrypt">>]

(***************************************************************************)
(* Inputs                                                                  *)
(***************************************************************************)
\* "aaaaaaaaX" and "aaaaaaaaY" agree on their first 8 characters
PwA == [i \in 1..9 |-> IF i = 9 THEN 88 ELSE 97]
PwB == [i \in 1..9 |-> IF i = 9 THEN 89 ELSE 97]
PwPool == {PwA, PwB, <<>>}

\* "", "s" and "s" preceded by U+FEFF
PlainPool == {<<>>, <<115>>, <<ByteOrderMark, 115>>}

EncOptions == {<<>>, [keyLength |-> 128], [algorithm |-> "AES-CBC"]}

\* a buffer with the byte at position pos changed
FlipByte(bytes, pos) == [bytes EXCEPT ![pos] = (@ + 1) % 256]

\* the envelope with one byte of a binary field changed
TamperField(E, f, pos) ==
  [E EXCEPT ![f] = arrayBufferToBase64(FlipByte(base64ToArrayBuffer(E[f]), pos))]

Without(E, fields) == [f \in (DOMAIN E) \ fields |-> E[f]]

OneByteTampers(E) ==
  {TamperField(E, f, 1) : f \in {"data", "iv", "salt"}}
    \cup {TamperField(E, f, Len(base64ToArrayBuffer(E[f]))) :
            f \in {"data", "iv", "salt"}}

\* the payloads a caller may hand to decrypt, given a stored envelope
Variants(E) ==
  {E}
    \cup OneByteTampers(E)
    \cup {[E EXCEPT !.checksum = Sha256(<<>>)],
          [E EXCEPT !.data = <<BadChar>> \o @],
          [E EXCEPT !.iterations = MinIterations - 1],
          [E EXCEPT !.iterations = MaxIterations + 1],
          [E EXCEPT !.keyLength = 100],
          [E EXCEPT !.algorithm = "AES-CBC"],
          Without(E, {"keyLength"}),
          Without(E, {"data", "iv"})}
    \cup {Without(E, {f}) : f \in {requiredFields[i] : i \in 1..Len(requiredFields)}}

\* keys a caller of the key-based variants holds
CallerKeys ==
  {Pbkdf2(<<107>>, RandomBytes(200, DEFAULT_SALT_LENGTH), 210000, 256),
   Pbkdf2(<<108>>, RandomBytes(201, DEFAULT_SALT_LENGTH), 210000, 256)}

\* the options a caller may hand to deriveKeyFromPassword: none, or the
\* salt and iteration count of a stored envelope, possibly with another key
\* length or with a salt that differs in its last byte
DeriveOptions ==
  {<<>>}
    \cup {[salt |-> base64ToArrayBuffer(envs[i].payload.salt),
           iterations |-> envs[i].payload.iterations] : i \in 1..Len(envs)}
    \cup {[salt |-> base64ToArrayBuffer(envs[i].payload.salt),
           iterations |-> envs[i].payload.iterations,
           keyLength |-> 128] : i \in 1..Len(envs)}
    \cup {[salt |-> FlipByte(base64ToArrayBuffer(envs[i].payload.salt),
                             DEFAULT_SALT_LENGTH),
           iterations |-> envs[i].payload.iterations] : i \in 1..Len(envs)}

\* a SecureAuthManager right after construction: no key, no fingerprint
Null == [null |-> TRUE]
AuthStart ==
  [currentEncryptionKey |-> Null, deviceFingerprint |-> Null,
   device |-> "device-1", regs |-> <<>>, cleared |-> FALSE]

(***************************************************************************)
(* State machine                                                           *)
(***************************************************************************)
Init ==
  /\ cfg = Null /\ tasks = <<>> /\ store = <<>> /\ provider = Null
  /\ auth = AuthStart
  /\ keyCache = <<>>
  /\ now = 0
  /\ rng = 0
  /\ sealed = <<>>
  /\ defaultIterations = FallbackIterations
  /\ envs = <<>>
  /\ res = [op |-> "none"]
  /\ cnt = [ops |-> 0, enc |-> 0, tick |-> 0, session |-> 0, fill |-> 0]
  /\ hist = <<>>

\* the record of direct deriveKeyFromPassword calls after one more call,
\* which had the outcome d and found the key cache as cacheBefore
HistAfter(h0, cacheBefore, d, password, options, t) ==
  LET args == <<password, options>>
      evicted == MapKeys(cacheBefore) \ MapKeys(d.cache)
      CkOf(h) == createCacheKey(h.args[1], h.val.salt, h.val.iterations)
      \* an earlier call whose cache entry is deleted by this one
      Mark(h) == [h EXCEPT !.evicted = @ \/ (CkOf(h) \in evicted)]
      marked == [i \in 1..Len(h0) |-> Mark(h0[i])]
      others == SelectSeq(marked, LAMBDA h : h.args # args)
  IN IF d.ok
       THEN Append(others, [args |-> args, at |-> t, val |-> d.val,
                            evicted |-> FALSE])
       ELSE marked

\* a caller awaits cryptoManager.deriveKeyFromPassword(password, options)
DeriveCall(password, options) ==
  LET d == deriveKeyFromPassword(keyCache, rng, now, defaultIterations,
                                 password, options)
  IN /\ keyCache' = d.cache
     /\ rng' = d.rng
     /\ res' = [op |-> "deriveKeyFromPassword", password |-> password,
                options |-> options, ok |-> d.ok, err |-> d.err,
                val |-> d.val, calls |-> d.calls,
                cacheBefore |-> keyCache, at |-> now,
                prior |-> SelectSeq(hist, LAMBDA h :
                                      h.args = <<password, options>>)]
     /\ hist' = HistAfter(hist, keyCache, d, password, options, now)
     /\ UNCHANGED <<cfg, tasks, store, provider, auth, now, sealed, defaultIterations, envs>>

DeriveKey ==
  /\ cnt.ops < MaxOps
  /\ \E password \in PwPool, options \in DeriveOptions :
       DeriveCall(password, options)
  /\ cnt' = [cnt EXCEPT !.ops = @ + 1]

\* a caller awaits cryptoManager.encryptData(plaintext, password, options)
Encrypt ==
  /\ cnt.ops < MaxOps
  /\ cnt.enc < MaxEnc
  /\ \E plaintext \in PlainPool, password \in {PwA, <<>>}, options \in EncOptions :
       LET e == encryptData(keyCache, rng, now, defaultIterations, sealed,
                            plaintext, password, options)
       IN /\ keyCache' = e.cache
          /\ rng' = e.rng
          /\ sealed' = e.sealed
          /\ envs' = IF e.ok
                       THEN Append(envs, [payload |-> e.val,
                                          plaintext |-> plaintext,
                                          password |-> password,
                                          kind |-> "password"])
                       ELSE envs
          /\ res' = [op |-> "encryptData", plaintext |-> plaintext,
                     password |-> password, options |-> options,
                     ok |-> e.ok, err |-> e.err, val |-> e.val,
                     calls |-> e.calls, cacheBefore |-> keyCache]
  /\ cnt' = [cnt EXCEPT !.ops = @ + 1, !.enc = @ + 1]
  /\ UNCHANGED <<cfg, tasks, store, provider, auth, now, defaultIterations, hist>>

\* a caller awaits cryptoManager.decryptData(payload, password)
DecryptCall(payload, password) ==
  LET d == decryptData(keyCache, rng, now, defaultIterations, sealed,
                       payload, password)
  IN /\ keyCache' = d.cache
     /\ res' = [op |-> "decryptData", payload |-> payload,
                password |-> password, ok |-> d.ok, err |-> d.err,
                cause |-> d.cause, val |-> d.val, calls |-> d.calls,
                cacheBefore |-> keyCache,
                direct |-> /\ res.op = "encryptData"
                           /\ res.ok
                           /\ res.val = payload]
     /\ UNCHANGED <<cfg, tasks, store, provider, auth, now, rng, sealed, defaultIterations, envs, hist>>

\* ... with a stored envelope, as it was produced
Decrypt ==
  /\ cnt.ops < MaxOps
  /\ \E i \in 1..Len(envs), password \in PwPool :
       DecryptCall(envs[i].payload, password)
  /\ cnt' = [cnt EXCEPT !.ops = @ + 1]

\* ... with a stored envelope that may have been altered in storage
DecryptStored ==
  /\ cnt.ops < MaxStoredOps
  /\ \E i \in {j \in 1..Len(envs) : envs[j].kind = "password"} :
       \E payload \in Variants(envs[i].payload), password \in PwPool :
         DecryptCall(payload, password)
  /\ cnt' = [cnt EXCEPT !.ops = @ + 1]

\* a caller awaits cryptoManager.decryptDataWithKey(payload, cryptoKey)
DecryptWithKey ==
  /\ cnt.ops < MaxStoredOps
  /\ \E i \in {j \in 1..Len(envs) : envs[j].kind = "key"} :
       \E payload \in Variants(envs[i].payload), cryptoKey \in CallerKeys :
         LET d == decryptDataWithKey(sealed, payload, cryptoKey)
         IN res' = [op |-> "decryptDataWithKey", payload |-> payload,
                    key |-> cryptoKey, ok |-> d.ok, err |-> d.err,
                    cause |-> d.cause, val |-> d.val, calls |-> d.calls,
                    cacheBefore |-> keyCache]
  /\ cnt' = [cnt EXCEPT !.ops = @ + 1]
  /\ UNCHANGED <<cfg, tasks, store, provider, auth, keyCache, now, rng, sealed, defaultIterations, envs, hist>>

\* time passes
Tick ==
  /\ cnt.tick < MaxTicks
  /\ \E d \in {CacheTTL} : now' = now + d
  /\ cnt' = [cnt EXCEPT !.tick = @ + 1]
  /\ UNCHANGED <<cfg, tasks, store, provider, auth, keyCache, rng, sealed, defaultIterations, envs, res, hist>>

\* the process ends and a new one starts: a new manager with an empty cache
\* and the iteration count its configuration gives; stored envelopes remain
NewSession ==
  /\ cnt.ops < MaxOps
  /\ cnt.session < MaxSessions
  /\ keyCache' = <<>>
  /\ \E n \in {100000} : defaultIterations' = n
  /\ res' = [op |-> "getInstance"]
  /\ cnt' = [cnt EXCEPT !.ops = @ + 1, !.session = @ + 1]
  /\ UNCHANGED <<cfg, tasks, store, provider, auth, now, rng, sealed, envs, hist>>

Next ==
  \/ DeriveKey
  \/ Encrypt
  \/ Decrypt
  \/ Tick
  \/ NewSession

Spec == Init /\ [][Next]_vars

\* The engine fed with an envelope that may have been altered in storage.
\* At the start one envelope is stored: the manager has just returned it
\* from encryptData with the password PwA, or from encryptDataWithKey with
\* a key of the caller.
InitStored ==
  /\ cfg = Null /\ tasks = <<>> /\ store = <<>> /\ provider = Null
  /\ auth = AuthStart
  /\ now = 0
  /\ defaultIterations = FallbackIterations
  /\ res = [op |-> "none"]
  /\ cnt = [ops |-> 0, enc |-> 0, tick |-> 0, session |-> 0, fill |-> 0]
  /\ hist = <<>>
  /\ \E plaintext \in PlainPool :
       \/ LET e == encryptData(<<>>, 0, 0, FallbackIterations, <<>>,
                               plaintext, PwA, <<>>)
          IN /\ keyCache = e.cache
             /\ rng = e.rng
             /\ sealed = e.sealed
             /\ envs = <<[payload |-> e.val, plaintext |-> plaintext,
                          password |-> PwA, kind |-> "password"]>>
       \/ \E cryptoKey \in CallerKeys :
            LET e == encryptDataWithKey(0, <<>>, plaintext, cryptoKey)
            IN /\ keyCache = <<>>
               /\ rng = e.rng
               /\ sealed = e.sealed
               /\ envs = <<[payload |-> e.val, plaintext |-> plaintext,
                            key |-> cryptoKey, kind |-> "key"]>>

NextStored ==
  \/ DecryptStored
  \/ DecryptWithKey
  \/ Tick

SpecStored == InitStored /\ [][NextStored]_vars

(***************************************************************************)
(* The key cache under load: derivations with a caller-chosen salt.  One   *)
(* derivation is repeated at the lowest accepted iteration count; the      *)
(* cache is filled by a run of counts none of which is used twice.         *)
(***************************************************************************)
UserSalt == [i \in 1..DEFAULT_SALT_LENGTH |-> 7]
FillBase == 2 * MinIterations
LimitIterations ==
  {MinIterations - 1, MinIterations, MaxIterations, MaxIterations + 1}
CacheTickStep == CacheTTL \div 2

FillOptions(k) == [salt |-> UserSalt, iterations |-> FillBase + k]

\* the manager after the derivations of a list of option records, made
\* one after the other at time 0 with the password PwA
RECURSIVE WarmedUp(_)
WarmedUp(calls) ==
  IF Len(calls) = 0 THEN [cache |-> <<>>, hist |-> <<>>]
  ELSE LET n == Len(calls)
           p == WarmedUp(SubSeq(calls, 1, n - 1))
           d == deriveKeyFromPassword(p.cache, 0, 0, FallbackIterations, PwA,
                                      calls[n])
       IN [cache |-> d.cache,
           hist |-> HistAfter(p.hist, p.cache, d, PwA, calls[n], 0)]

\* PreFill derivations: the first with the lowest accepted iteration count
\* or with a count not used again, the others with counts not used again
WarmUpCalls ==
  {[k \in 1..PreFill |-> IF k = 1 THEN first ELSE FillOptions(k - 1)] :
     first \in {FillOptions(0),
                [salt |-> UserSalt, iterations |-> MinIterations]}}

InitCache ==
  /\ cfg = Null /\ tasks = <<>> /\ store = <<>> /\ provider = Null
  /\ auth = AuthStart
  /\ \E calls \in WarmUpCalls :
       /\ keyCache = WarmedUp(calls).cache
       /\ hist = WarmedUp(calls).hist
  /\ now = 0
  /\ rng = 0
  /\ sealed = <<>>
  /\ defaultIterations = FallbackIterations
  /\ envs = <<>>
  /\ res = [op |-> "none"]
  /\ cnt = [ops |-> 0, enc |-> 0, tick |-> 0, session |-> 0, fill |-> 0]

DeriveKeyCache ==
  \/ /\ cnt.ops < MaxCacheDerive
     /\ DeriveCall(PwA, [salt |-> UserSalt, iterations |-> MinIterations])
     /\ cnt' = [cnt EXCEPT !.ops = @ + 1]
  \/ /\ cnt.fill < MaxFill
     /\ DeriveCall(PwA, FillOptions(PreFill + cnt.fill))
     /\ cnt' = [cnt EXCEPT !.fill = @ + 1]

TickCache ==
  /\ cnt.tick < MaxCacheTicks
  /\ now' = now + CacheTickStep
  /\ cnt' = [cnt EXCEPT !.tick = @ + 1]
  /\ UNCHANGED <<cfg, tasks, store, provider, auth, keyCache, rng, sealed, defaultIterations, envs, res, hist>>

NextCache ==
  \/ DeriveKeyCache
  \/ TickCache

SpecCache == InitCache /\ [][NextCache]_vars

\* The iteration counts at the limits of the accepted range, with a salt of
\* the caller or the default salt, and the default count; the cache holds
\* keys already.
LimitOptions ==
  {[salt |-> UserSalt, iterations |-> n] : n \in LimitIterations}
    \cup {[iterations |-> n] : n \in LimitIterations}
    \cup {<<>>}

DeriveLimit ==
  /\ cnt.ops < MaxLimitCalls
  /\ \E password \in {PwA, <<>>}, options \in LimitOptions :
       DeriveCall(password, options)
  /\ cnt' = [cnt EXCEPT !.ops = @ + 1]

NextLimits == DeriveLimit

SpecLimits == InitCache /\ [][NextLimits]_vars

(***************************************************************************)
(* Serialized envelopes: JSON.stringify and JSON.parse.  A JSON text is a  *)
(* sequence of tokens: the punctuators, string and number literals, null,  *)
(* and junk for characters that start no JSON token.  The texts that occur *)
(* hold scalars and objects of scalars.                                    *)
(***************************************************************************)
Tok(kind) == [t |-> kind]
StrLit(x) == [t |-> "str", v |-> x]
NumLit(n) == [t |-> "num", v |-> n]

ErrSyntax == "SyntaxError"
ErrType == "TypeError"
ErrNoKey == "No encryption key available. Please authenticate first."

\* the property names of an EncryptedPayload, in the order the object
\* literals of encryptData and encryptDataWithKey create them
PayloadKeyOrder ==
  <<"data", "iv", "salt", "iterations", "algorithm", "keyLength", "version",
    "checksum">>

\* JSON.stringify of a payload object: its own properties in creation order
RECURSIVE StringifyMembers(_, _, _)
StringifyMembers(payload, i, first) ==
  IF i > Len(PayloadKeyOrder) THEN <<>>
  ELSE LET f == PayloadKeyOrder[i] IN
    IF f \notin DOMAIN payload THEN StringifyMembers(payload, i + 1, first)
    ELSE (IF first THEN <<>> ELSE <<Tok(",")>>)
           \o <<StrLit(f), Tok(":"),
                IF f \in {"iterations", "keyLength"} THEN NumLit(payload[f])
                ELSE StrLit(payload[f])>>
           \o StringifyMembers(payload, i + 1, FALSE)

JSONstringify(payload) ==
  <<Tok("{")>> \o StringifyMembers(payload, 1, TRUE) \o <<Tok("}")>>


\* the members of an object from token i on, added to the properties acc;
\* a later member replaces an earlier one of the same name
RECURSIVE ParseMembers(_, _, _)
ParseMembers(text, i, acc) ==
  IF /\ i + 3 <= Len(text)
     /\ text[i].t = "str"
     /\ text[i + 1].t = ":"
     /\ text[i + 2].t \in {"str", "num", "null"}
    THEN LET value == IF text[i + 2].t = "null" THEN Null ELSE text[i + 2].v
             obj == (text[i].v :> value) @@ acc
         IN IF text[i + 3].t = "}" /\ i + 3 = Len(text)
              THEN [ok |-> TRUE, kind |-> "object", val |-> obj]
            ELSE IF text[i + 3].t = ","
              THEN ParseMembers(text, i + 4, obj)
            ELSE [ok |-> FALSE, kind |-> ErrSyntax, val |-> <<>>]
    ELSE [ok |-> FALSE, kind |-> ErrSyntax, val |-> <<>>]

JSONparse(text) ==
  IF Len(text) = 1 /\ text[1].t \in {"str", "num", "null"}
    THEN [ok |-> TRUE,
          kind |-> IF text[1].t = "null" THEN "null" ELSE "primitive",
          val |-> IF text[1].t = "null" THEN Null ELSE text[1].v]
  ELSE IF Len(text) = 2 /\ text[1].t = "{" /\ text[2].t = "}"
    THEN [ok |-> TRUE, kind |-> "object", val |-> [f \in {} |-> 0]]
  ELSE IF Len(text) >= 2 /\ text[1].t = "{"
    THEN ParseMembers(text, 2, [f \in {} |-> 0])
  ELSE [ok |-> FALSE, kind |-> ErrSyntax, val |-> <<>>]

\* decryptCredential(cipherText, masterPassword): JSON.parse, then
\* cryptoManager.decryptData, whose validateEncryptedPayload applies the
\* `in` operator to what was parsed (a TypeError on null and primitives)
decryptCredential(cache, r, t, dflt, tbl, cipherText, masterPassword) ==
  LET p == JSONparse(cipherText)
      Fail(e) == [ok |-> FALSE, err |-> e, cause |-> e, val |-> <<>>,
                  cache |-> cache, rng |-> r, calls |-> <<>>]
  IN IF ~p.ok THEN Fail(ErrSyntax)
     ELSE IF p.kind # "object" THEN Fail(ErrType)
     ELSE decryptData(cache, r, t, dflt, tbl, p.val, masterPassword)

\* SecureAuthManager.decryptData(encryptedData) with the key the manager
\* holds
authDecryptData(tbl, currentEncryptionKey, encryptedData) ==
  LET p == JSONparse(encryptedData)
      Fail(e) == [ok |-> FALSE, err |-> e, cause |-> e, val |-> <<>>,
                  calls |-> <<>>]
  IN IF currentEncryptionKey = Null THEN Fail(ErrNoKey)
     ELSE IF ~p.ok THEN Fail(ErrSyntax)
     ELSE IF p.kind # "object" THEN Fail(ErrType)
     ELSE decryptDataWithKey(tbl, p.val, currentEncryptionKey)

\* SecureAuthManager.encryptData(data)
authEncryptData(r, tbl, currentEncryptionKey, data) ==
  LET e == encryptDataWithKey(r, tbl, data, currentEncryptionKey)
  IN IF currentEncryptionKey = Null
       THEN [ok |-> FALSE, err |-> ErrNoKey, val |-> <<>>, rng |-> r,
             sealed |-> tbl, calls |-> <<>>]
       ELSE [e EXCEPT !.val = JSONstringify(e.val)]

\* the strings a caller may hand to a decrypt-from-string function, given
\* a stored envelope: its serialization, texts that do not parse, texts
\* that parse to null, a number or a string, and objects with a field
\* missing or with a field that is not base64
SerialVariants(E) ==
  {JSONstringify(E),
   <<Tok("junk")>>,
   SubSeq(JSONstringify(E), 1, Len(JSONstringify(E)) - 1),
   <<Tok("null")>>,
   <<NumLit(123)>>,
   <<StrLit(E.data)>>,
   <<Tok("{"), Tok("}")>>,
   JSONstringify(Without(E, {"checksum"})),
   JSONstringify([E EXCEPT !.data = <<BadChar>> \o @]),
   JSONstringify([E EXCEPT !.salt = <<BadChar>> \o @])}

(***************************************************************************)
(* SecureAuthManager (src/src/lib/secure-auth.ts)                          *)
(***************************************************************************)
AuthIterations == 100000
EncryptionIterations == 210000
AuthSaltLength == 32
DerivedKeyBits == 256

\* "::encryption"
EncryptionSuffix == <<58, 58, 101, 110, 99, 114, 121, 112, 116, 105, 111, 110>>

\* Buffer.from(bytes).toString('base64') and Buffer.from(text, 'base64')
BufferToBase64(bytes) == Btoa(bytes, 1)
BufferFromBase64(text) == AtobFrom(StripPad(text), 1)

\* generateDeviceFingerprint(): 16 hex digits of the SHA-256 digest of the
\* description of the device the code runs on
generateDeviceFingerprint(device) == [hex16 |-> Sha256(device)]

\* deriveKeys(masterPassword, authSalt, encryptionSalt): the authentication
\* key is the hex string of the derived bits
deriveKeys(masterPassword, authSalt, encryptionSalt) ==
  [authKey |-> [hex |-> Pbkdf2(TextEncode(masterPassword),
                               BufferFromBase64(authSalt), AuthIterations,
                               DerivedKeyBits)],
   encryptionKey |-> Pbkdf2(TextEncode(masterPassword \o EncryptionSuffix),
                            BufferFromBase64(encryptionSalt),
                            EncryptionIterations, DerivedKeyBits)]

\* the SecureAuthData object literal of registerUser
authDataWithKey(email, keys, authSalt, encryptionSalt, t, fingerprint) ==
  [userEmail |-> email, authHash |-> keys.authKey, authSalt |-> authSalt,
   encryptionSalt |-> encryptionSalt, accountCreated |-> t, lastLogin |-> t,
   deviceTrust |-> [trustedDevices |-> <<fingerprint>>,
                    requiresVerification |-> FALSE],
   encryptionKey |-> keys.encryptionKey]

authDataOf(email, keys, authSalt, encryptionSalt, t, fingerprint) ==
  [userEmail |-> email, authHash |-> keys.authKey, authSalt |-> authSalt,
   encryptionSalt |-> encryptionSalt, accountCreated |-> t, lastLogin |-> t,
   deviceTrust |-> [trustedDevices |-> <<fingerprint>>,
                    requiresVerification |-> FALSE]]

\* registerUser(email, masterPassword) on a device, at time t, after r
\* random draws: the record returned and the fields of the manager
registerUser(r, t, device, email, masterPassword) ==
  LET authSalt == BufferToBase64(RandomBytes(r + 1, AuthSaltLength))
      encryptionSalt == BufferToBase64(RandomBytes(r + 2, AuthSaltLength))
      keys == deriveKeys(masterPassword, authSalt, encryptionSalt)
      fingerprint == generateDeviceFingerprint(device)
  IN [val |-> authDataOf(email, keys, authSalt, encryptionSalt, t,
                         fingerprint),
      currentEncryptionKey |-> keys.encryptionKey,
      deviceFingerprint |-> fingerprint,
      rng |-> r + 2]

\* the comparison of the derived authentication key with the stored hash
authHashDiffers(authKey, storedAuthData) ==
  authKey # storedAuthData.authHash

SeqIncludes(s, x) == \E i \in 1..Len(s) : s[i] = x

\* authenticateUser(email, masterPassword, storedAuthData) on a manager
\* that holds key0 and fingerprint0: the result and the fields afterwards
\* an attempt that fails drops the key in memory
authenticateUserClears(key0, fingerprint0, t, device, email, masterPassword, storedAuthData) ==
  LET keys == deriveKeys(masterPassword, storedAuthData.authSalt,
                         storedAuthData.encryptionSalt)
      fingerprint == generateDeviceFingerprint(device)
      deviceInfo ==
        [fingerprint |-> fingerprint,
         isTrusted |-> SeqIncludes(storedAuthData.deviceTrust.trustedDevices,
                                   fingerprint),
         lastSeen |-> t, userAgent |-> device]
  IN IF authHashDiffers(keys.authKey, storedAuthData)
       THEN [val |-> [success |-> FALSE],
             currentEncryptionKey |-> Null,
             deviceFingerprint |-> fingerprint0]
     ELSE IF "deviceTrust" \notin DOMAIN storedAuthData
       THEN [val |-> [success |-> FALSE],
             currentEncryptionKey |-> Null,
             deviceFingerprint |-> fingerprint]
       ELSE [val |-> [success |-> TRUE,
                      encryptionKey |-> keys.encryptionKey,
                      deviceInfo |-> deviceInfo],
             currentEncryptionKey |-> keys.encryptionKey,
             deviceFingerprint |-> fingerprint]

\* authenticateUser(email, masterPassword, storedAuthData)
authenticateUser(key0, fingerprint0, t, device, email, masterPassword, storedAuthData) ==
  LET keys == deriveKeys(masterPassword, storedAuthData.authSalt,
                         storedAuthData.encryptionSalt)
      fingerprint == generateDeviceFingerprint(device)
      deviceInfo ==
        [fingerprint |-> fingerprint,
         isTrusted |-> SeqIncludes(storedAuthData.deviceTrust.trustedDevices,
                                   fingerprint),
         lastSeen |-> t, userAgent |-> device]
  IN IF authHashDiffers(keys.authKey, storedAuthData)
       THEN [val |-> [success |-> FALSE],
             currentEncryptionKey |-> key0,
             deviceFingerprint |-> fingerprint0]
     \* reading trustedDevices of a record without deviceTrust throws a
     \* TypeError, which the catch block turns into a failure
     ELSE IF "deviceTrust" \notin DOMAIN storedAuthData
       THEN [val |-> [success |-> FALSE],
             currentEncryptionKey |-> key0,
             deviceFingerprint |-> fingerprint]
       ELSE [val |-> [success |-> TRUE,
                      encryptionKey |-> keys.encryptionKey,
                      deviceInfo |-> deviceInfo],
             currentEncryptionKey |-> keys.encryptionKey,
             deviceFingerprint |-> fingerprint]

\* trustCurrentDevice(authData): the object passed in is changed and
\* returned
trustCurrentDevice(fingerprint0, device, authData) ==
  LET fingerprint == IF fingerprint0 = Null
                       THEN generateDeviceFingerprint(device)
                       ELSE fingerprint0
      trusted == authData.deviceTrust.trustedDevices
  IN [val |-> IF SeqIncludes(trusted, fingerprint) THEN authData
              ELSE [authData EXCEPT !.deviceTrust.trustedDevices =
                                      Append(trusted, fingerprint)],
      deviceFingerprint |-> fingerprint]

\* clearAuthState(): the key field after the call
clearAuthStateKeeps(currentEncryptionKey) == currentEncryptionKey

clearAuthState(currentEncryptionKey) == Null

(***************************************************************************)
(* The authentication manager in use.  At the start a user has registered  *)
(* on device-1 and the record returned is kept by the caller.              *)
(***************************************************************************)
\* a lone high surrogate, and U+FFFD
PwLoneSurrogate == <<55296>>
PwReplacement == <<ReplacementChar>>
AuthPwPool == {PwA, PwLoneSurrogate, PwReplacement}

\* "u@x"
UserEmail == <<117, 64, 120>>

Devices == {"device-1", "device-2"}


\* the manager and the caller's records after registerUser
AfterRegister(a, r, t, email, masterPassword) ==
  LET g == registerUser(r, t, a.device, email, masterPassword)
  IN [a EXCEPT !.currentEncryptionKey = g.currentEncryptionKey,
               !.deviceFingerprint = g.deviceFingerprint,
               !.cleared = FALSE,
               !.regs = Append(@, [record |-> g.val, email |-> email,
                                   password |-> masterPassword,
                                   key |-> g.currentEncryptionKey])]

InitAuth ==
  /\ cfg = Null /\ tasks = <<>> /\ store = <<>> /\ provider = Null
  /\ keyCache = <<>>
  /\ now = 0
  /\ sealed = <<>>
  /\ defaultIterations = FallbackIterations
  /\ envs = <<>>
  /\ res = [op |-> "none"]
  /\ cnt = [ops |-> 0, enc |-> 0, tick |-> 0, session |-> 0, fill |-> 0]
  /\ hist = <<>>
  /\ rng = 2
  /\ \E masterPassword \in AuthPwPool :
       auth = AfterRegister(AuthStart, 0, 0, UserEmail, masterPassword)

\* a caller awaits secureAuthManager.registerUser(email, masterPassword)
RegisterUser ==
  /\ cnt.ops < MaxAuthOps
  /\ \E masterPassword \in AuthPwPool :
       LET g == registerUser(rng, now, auth.device, UserEmail, masterPassword)
       IN /\ auth' = AfterRegister(auth, rng, now, UserEmail, masterPassword)
          /\ rng' = g.rng
          /\ res' = [op |-> "registerUser", password |-> masterPassword,
                     val |-> g.val]
  /\ cnt' = [cnt EXCEPT !.ops = @ + 1]
  /\ UNCHANGED <<cfg, tasks, store, provider, keyCache, now, sealed, defaultIterations, envs, hist>>

\* a caller awaits secureAuthManager.authenticateUser(email, masterPassword,
\* record) with a record it keeps
AuthenticateUser ==
  /\ cnt.ops < MaxAuthOps
  /\ \E i \in 1..Len(auth.regs), masterPassword \in AuthPwPool :
       LET g == authenticateUser(auth.currentEncryptionKey,
                                 auth.deviceFingerprint, now, auth.device,
                                 auth.regs[i].email, masterPassword,
                                 auth.regs[i].record)
       IN /\ auth' = [auth EXCEPT
                        !.currentEncryptionKey = g.currentEncryptionKey,
                        !.deviceFingerprint = g.deviceFingerprint,
                        !.cleared = @ /\ ~g.val.success]
          /\ res' = [op |-> "authenticateUser", password |-> masterPassword,
                     reg |-> i, val |-> g.val]
  /\ cnt' = [cnt EXCEPT !.ops = @ + 1]
  /\ UNCHANGED <<cfg, tasks, store, provider, keyCache, now, rng, sealed, defaultIterations, envs, hist>>

\* a caller awaits secureAuthManager.trustCurrentDevice(record); the record
\* object the caller keeps is the one that is changed
TrustCurrentDevice ==
  /\ cnt.ops < MaxAuthOps
  /\ \E i \in 1..Len(auth.regs) :
       LET g == trustCurrentDevice(auth.deviceFingerprint, auth.device,
                                   auth.regs[i].record)
       IN /\ auth' = [auth EXCEPT !.deviceFingerprint = g.deviceFingerprint,
                                  !.regs[i].record = g.val]
          /\ res' = [op |-> "trustCurrentDevice", reg |-> i, val |-> g.val]
  /\ cnt' = [cnt EXCEPT !.ops = @ + 1]
  /\ UNCHANGED <<cfg, tasks, store, provider, keyCache, now, rng, sealed, defaultIterations, envs, hist>>

\* lock or sign-out
ClearAuthState ==
  /\ cnt.ops < MaxAuthOps
  /\ auth' = [auth EXCEPT
                !.currentEncryptionKey = clearAuthState(@),
                !.cleared = TRUE]
  /\ res' = [op |-> "clearAuthState"]
  /\ cnt' = [cnt EXCEPT !.ops = @ + 1]
  /\ UNCHANGED <<cfg, tasks, store, provider, keyCache, now, rng, sealed, defaultIterations, envs, hist>>

\* a caller awaits secureAuthManager.encryptData(data)
AuthEncrypt ==
  /\ cnt.ops < MaxAuthOps
  /\ \E data \in {<<>>, <<115>>} :
       LET e == authEncryptData(rng, sealed, auth.currentEncryptionKey, data)
       IN /\ rng' = e.rng
          /\ sealed' = e.sealed
          /\ envs' = IF e.ok
                       THEN Append(envs, [payload |-> JSONparse(e.val).val,
                                          text |-> e.val,
                                          plaintext |-> data,
                                          key |-> auth.currentEncryptionKey,
                                          kind |-> "auth"])
                       ELSE envs
          /\ res' = [op |-> "auth.encryptData", plaintext |-> data,
                     ok |-> e.ok, err |-> e.err, val |-> e.val,
                     calls |-> e.calls, cleared |-> auth.cleared,
                     cacheBefore |-> keyCache]
  /\ cnt' = [cnt EXCEPT !.ops = @ + 1]
  /\ UNCHANGED <<cfg, tasks, store, provider, auth, keyCache, now, defaultIterations, hist>>

\* a caller awaits secureAuthManager.decryptData(text)
AuthDecryptCall(text) ==
  LET d == authDecryptData(sealed, auth.currentEncryptionKey, text)
  IN /\ res' = [op |-> "auth.decryptData", text |-> text, ok |-> d.ok,
                err |-> d.err, cause |-> d.cause, val |-> d.val,
                calls |-> d.calls, cleared |-> auth.cleared,
                key |-> auth.currentEncryptionKey,
                cacheBefore |-> keyCache]
     /\ cnt' = [cnt EXCEPT !.ops = @ + 1]
     /\ UNCHANGED <<cfg, tasks, store, provider, auth, keyCache, now, rng, sealed, defaultIterations,
                    envs, hist>>

\* ... with a text it stored, or with one that is no JSON text
AuthDecrypt ==
  /\ cnt.ops < MaxAuthOps
  /\ \E text \in {<<Tok("junk")>>} \cup {envs[i].text : i \in 1..Len(envs)} :
       AuthDecryptCall(text)

\* the application is opened on another device: a new manager
OtherDevice ==
  /\ cnt.ops < MaxAuthOps
  /\ \E device \in Devices \ {auth.device} :
       auth' = [auth EXCEPT !.currentEncryptionKey = Null,
                            !.deviceFingerprint = Null,
                            !.device = device,
                            !.cleared = FALSE]
  /\ keyCache' = <<>>
  /\ res' = [op |-> "getInstance"]
  /\ cnt' = [cnt EXCEPT !.ops = @ + 1]
  /\ UNCHANGED <<cfg, tasks, store, provider, now, rng, sealed, defaultIterations, envs, hist>>

NextAuth ==
  \/ RegisterUser
  \/ AuthenticateUser
  \/ TrustCurrentDevice
  \/ ClearAuthState
  \/ AuthEncrypt
  \/ AuthDecrypt
  \/ OtherDevice

SpecAuth == InitAuth /\ [][NextAuth]_vars

\* ... with a record that has lost its deviceTrust field on the way (the
\* record is the caller's: it comes from the server or from local storage)
AuthenticateIncomplete ==
  /\ cnt.ops < MaxAuthOps
  /\ \E i \in 1..Len(auth.regs), masterPassword \in AuthPwPool :
       LET g == authenticateUser(auth.currentEncryptionKey,
                                 auth.deviceFingerprint, now, auth.device,
                                 auth.regs[i].email, masterPassword,
                                 Without(auth.regs[i].record, {"deviceTrust"}))
       IN /\ auth' = [auth EXCEPT
                        !.currentEncryptionKey = g.currentEncryptionKey,
                        !.deviceFingerprint = g.deviceFingerprint,
                        !.cleared = @ /\ ~g.val.success]
          /\ res' = [op |-> "authenticateUser", password |-> masterPassword,
                     reg |-> i, val |-> g.val, incomplete |-> TRUE]
  /\ cnt' = [cnt EXCEPT !.ops = @ + 1]
  /\ UNCHANGED <<cfg, tasks, store, provider, keyCache, now, rng, sealed, defaultIterations, envs, hist>>

NextAttempts ==
  \/ NextAuth
  \/ AuthenticateIncomplete

SpecAttempts == InitAuth /\ [][NextAttempts]_vars

(***************************************************************************)
(* Decrypting from stored strings.  At the start one string is stored: the *)
(* result of encryptCredential with the password PwA, or the result of     *)
(* secureAuthManager.encryptData after a registration with PwA.            *)
(***************************************************************************)
\* encryptCredential(plainText, masterPassword)
encryptCredential(cache, r, t, dflt, tbl, plainText, masterPassword) ==
  LET e == encryptData(cache, r, t, dflt, tbl, plainText, masterPassword,
                       <<>>)
  IN IF e.ok THEN [e EXCEPT !.val = JSONstringify(e.val)] ELSE e

InitSerial ==
  /\ cfg = Null /\ tasks = <<>> /\ store = <<>> /\ provider = Null
  /\ now = 0
  /\ defaultIterations = FallbackIterations
  /\ res = [op |-> "none"]
  /\ cnt = [ops |-> 0, enc |-> 0, tick |-> 0, session |-> 0, fill |-> 0]
  /\ hist = <<>>
  /\ \E plainText \in PlainPool :
       \/ LET e == encryptCredential(<<>>, 0, 0, FallbackIterations, <<>>,
                                     plainText, PwA)
          IN /\ auth = AuthStart
             /\ keyCache = e.cache
             /\ rng = e.rng
             /\ sealed = e.sealed
             /\ envs = <<[payload |-> JSONparse(e.val).val, text |-> e.val,
                          plaintext |-> plainText, password |-> PwA,
                          kind |-> "credential"]>>
       \/ LET a == AfterRegister(AuthStart, 0, 0, UserEmail, PwA)
              e == authEncryptData(2, <<>>, a.currentEncryptionKey, plainText)
          IN /\ auth = a
             /\ keyCache = <<>>
             /\ rng = e.rng
             /\ sealed = e.sealed
             /\ envs = <<[payload |-> JSONparse(e.val).val, text |-> e.val,
                          plaintext |-> plainText,
                          key |-> a.currentEncryptionKey, kind |-> "auth"]>>

\* a caller awaits decryptCredential(cipherText, masterPassword)
DecryptCredential ==
  /\ cnt.ops < MaxSerialOps
  /\ \E i \in {j \in 1..Len(envs) : envs[j].kind = "credential"} :
       \E cipherText \in SerialVariants(envs[i].payload),
          masterPassword \in PwPool :
         LET d == decryptCredential(keyCache, rng, now, defaultIterations,
                                    sealed, cipherText, masterPassword)
         IN /\ keyCache' = d.cache
            /\ res' = [op |-> "decryptCredential", text |-> cipherText,
                       password |-> masterPassword, ok |-> d.ok,
                       err |-> d.err, cause |-> d.cause, val |-> d.val,
                       calls |-> d.calls, cacheBefore |-> keyCache]
  /\ cnt' = [cnt EXCEPT !.ops = @ + 1]
  /\ UNCHANGED <<cfg, tasks, store, provider, auth, now, rng, sealed, defaultIterations, envs, hist>>

\* a caller awaits secureAuthManager.decryptData(text) with a stored text
\* that may have been altered
AuthDecryptStored ==
  /\ cnt.ops < MaxSerialOps
  /\ \E i \in {j \in 1..Len(envs) : envs[j].kind = "auth"} :
       \E text \in SerialVariants(envs[i].payload) : AuthDecryptCall(text)

NextSerial ==
  \/ DecryptCredential
  \/ AuthDecryptStored

SpecSerial == InitSerial /\ [][NextSerial]_vars

(***************************************************************************)
(* One manager asked to encrypt several times in a row, with a password    *)
(* and with a key of the caller.                                           *)
(***************************************************************************)
\* a caller awaits cryptoManager.encryptData(plaintext, password, options)
\* once more
EncryptAgain ==
  /\ cnt.enc < MaxFreshEnc
  /\ \E plaintext \in PlainPool, password \in PwPool, options \in EncOptions :
       LET e == encryptData(keyCache, rng, now, defaultIterations, sealed,
                            plaintext, password, options)
       IN /\ keyCache' = e.cache
          /\ rng' = e.rng
          /\ sealed' = e.sealed
          /\ envs' = IF e.ok
                       THEN Append(envs, [payload |-> e.val,
                                          plaintext |-> plaintext,
                                          password |-> password,
                                          kind |-> "password"])
                       ELSE envs
          /\ res' = [op |-> "encryptData", plaintext |-> plaintext,
                     password |-> password, options |-> options,
                     ok |-> e.ok, err |-> e.err, val |-> e.val,
                     calls |-> e.calls, cacheBefore |-> keyCache]
  /\ cnt' = [cnt EXCEPT !.enc = @ + 1]
  /\ UNCHANGED <<cfg, tasks, store, provider, auth, now, defaultIterations, hist>>

\* a caller awaits cryptoManager.encryptDataWithKey(plaintext, cryptoKey)
EncryptWithKeyAgain ==
  /\ cnt.enc < MaxFreshEnc
  /\ \E plaintext \in PlainPool, cryptoKey \in CallerKeys :
       LET e == encryptDataWithKey(rng, sealed, plaintext, cryptoKey)
       IN /\ rng' = e.rng
          /\ sealed' = e.sealed
          /\ envs' = Append(envs, [payload |-> e.val, plaintext |-> plaintext,
                                   key |-> cryptoKey, kind |-> "key"])
          /\ res' = [op |-> "encryptDataWithKey", plaintext |-> plaintext,
                     key |-> cryptoKey, ok |-> e.ok, err |-> e.err,
                     val |-> e.val, calls |-> e.calls]
  /\ cnt' = [cnt EXCEPT !.enc = @ + 1]
  /\ UNCHANGED <<cfg, tasks, store, provider, auth, keyCache, now, defaultIterations, hist>>

NextFresh ==
  \/ EncryptAgain
  \/ EncryptWithKeyAgain

SpecFresh == Init /\ [][NextFresh]_vars

(***************************************************************************)
(* analyzePasswordStrength(password).  A password is its sequence of      *)
(* UTF-16 code units, as the string methods and the regular expressions   *)
(* (none has the u flag) see it.  The entropy and crack time estimates of *)
(* the report are left out.                                               *)
(***************************************************************************)
\* the class [!@#$%^&*()_+\-=\[\]{}|;:,.<>?]
SymbolChars ==
  {33, 64, 35, 36, 37, 94, 38, 42, 40, 41, 95, 43, 45, 61, 91, 93, 123, 125,
   124, 59, 58, 44, 46, 60, 62, 63}

\* the characters that . does not match
LineTerminators == {10, 13, 8232, 8233}

\* /[a-z]/, /[A-Z]/, /\d/ and the symbol class tested on the password
hasLower(password) == \E i \in 1..Len(password) : password[i] \in 97..122
hasUpper(password) == \E i \in 1..Len(password) : password[i] \in 65..90
hasNumber(password) == \E i \in 1..Len(password) : password[i] \in 48..57
hasSymbol(password) == \E i \in 1..Len(password) : password[i] \in SymbolChars

charTypes(password) ==
  Cardinality({c \in {"lower", "upper", "number", "symbol"} :
                 \/ c = "lower" /\ hasLower(password)
                 \/ c = "upper" /\ hasUpper(password)
                 \/ c = "number" /\ hasNumber(password)
                 \/ c = "symbol" /\ hasSymbol(password)})

\* /(.)\1{2,}/.test(password)
repeatsCharacter(password) ==
  \E i \in 1..(Len(password) - 2) :
    /\ password[i] \notin LineTerminators
    /\ password[i + 1] = password[i]
    /\ password[i + 2] = password[i]

\* the canonical form under which /i compares two code units: the upper
\* case, which for the letters of the three sequences only a-z reach
Canonicalize(u) == IF u \in 97..122 THEN u - 32 ELSE u

\* /123|abc|qwe/i.test(password)
matchesCommonSequence(password) ==
  \E w \in {<<49, 50, 51>>, <<97, 98, 99>>, <<113, 119, 101>>} :
    \E off \in 0..(Len(password) - Len(w)) :
      \A k \in 1..Len(w) : Canonicalize(password[off + k]) = Canonicalize(w[k])

\* String.prototype.toLowerCase on one code unit: the ASCII and Latin-1
\* capitals, and the three letters whose lower case is of another kind
\* (U+0130 becomes i followed by U+0307, U+212A k, U+212B a with ring)
LowerOfUnit(u) ==
  IF u \in 65..90 THEN <<u + 32>>
  ELSE IF u >= 192 /\ u <= 222 /\ u # 215 THEN <<u + 32>>
  ELSE IF u = 304 THEN <<105, 775>>
  ELSE IF u = 8490 THEN <<107>>
  ELSE IF u = 8491 THEN <<229>>
  ELSE <<u>>

RECURSIVE toLowerCaseFrom(_, _)
toLowerCaseFrom(s, i) ==
  IF i > Len(s) THEN <<>>
  ELSE LowerOfUnit(s[i]) \o toLowerCaseFrom(s, i + 1)

toLowerCase(s) == toLowerCaseFrom(s, 1)

\* String.prototype.includes
includes(text, word) ==
  \E off \in 0..(Len(text) - Len(word)) :
    \A k \in 1..Len(word) : text[off + k] = word[k]

\* 'password', '123456', 'qwerty', 'admin', 'letmein'
commonPasswords ==
  <<<<112, 97, 115, 115, 119, 111, 114, 100>>,
    <<49, 50, 51, 52, 53, 54>>,
    <<113, 119, 101, 114, 116, 121>>,
    <<97, 100, 109, 105, 110>>,
    <<108, 101, 116, 109, 101, 105, 110>>>>

containsCommonPassword(password) ==
  \E n \in 1..Len(commonPasswords) :
    includes(toLowerCase(password), commonPasswords[n])

lengthScore(length) ==
  IF length < 8 THEN 0
  ELSE IF length < 12 THEN 10
  ELSE IF length >= 16 THEN 25
  ELSE 20

\* thresholds that also count the bound itself to the weaker label
strengthOfInclusive(score) ==
  IF score <= 20 THEN "Very Weak"
  ELSE IF score <= 40 THEN "Weak"
  ELSE IF score <= 60 THEN "Fair"
  ELSE IF score <= 80 THEN "Good"
  ELSE IF score <= 90 THEN "Strong"
  ELSE "Very Strong"

strengthOf(score) ==
  IF score < 20 THEN "Very Weak"
  ELSE IF score < 40 THEN "Weak"
  ELSE IF score < 60 THEN "Fair"
  ELSE IF score < 80 THEN "Good"
  ELSE IF score < 90 THEN "Strong"
  ELSE "Very Strong"

\* Math.max(0, Math.min(100, score))
Clamp(score) == IF score < 0 THEN 0 ELSE IF score > 100 THEN 100 ELSE score

Note(cond, text) == IF cond THEN <<text>> ELSE <<>>

analyzePasswordStrength(password) ==
  LET length == Len(password)
      types == charTypes(password)
      repeated == repeatsCharacter(password)
      sequence == matchesCommonSequence(password)
      common == containsCommonPassword(password)
      score == lengthScore(length) + types * 10
                 - (IF repeated THEN 10 ELSE 0)
                 - (IF sequence THEN 15 ELSE 0)
                 - (IF common THEN 25 ELSE 0)
      feedback ==
        Note(length < 8, "Password should be at least 8 characters long")
          \o Note(length >= 8 /\ length < 12,
                  "Consider using a longer password (12+ characters)")
          \o Note(types < 3,
                  "Use a mix of uppercase, lowercase, numbers, and symbols")
          \o Note(repeated, "Avoid repeating characters")
          \o Note(sequence, "Avoid common sequences")
          \o Note(common, "Avoid common passwords or words")
  IN [score |-> Clamp(score), strength |-> strengthOf(score),
      feedback |-> feedback]

(***************************************************************************)
(* The analyzer applied to one candidate password.  The candidates are    *)
(* put together from a few pieces: the passphrase Tr0ub4dor&3Zebra!,      *)
(* pieces of a single character class and of all four, the common         *)
(* sequences, halves of a common password, a capitalised common           *)
(* password, a run of a letter and a run of line feeds.                   *)
(***************************************************************************)
Passphrase ==
  <<84, 114, 48, 117, 98, 52, 100, 111, 114, 38, 51, 90, 101, 98, 114, 97, 33>>

Pieces ==
  {Passphrase,
   <<120, 121, 122, 119>>,
   <<88, 89, 90, 87>>,
   <<52, 53, 54>>,
   <<88, 121, 55, 33>>,
   <<97, 98, 99>>,
   <<81, 119, 69>>,
   <<49, 50, 51>>,
   <<97, 97, 97>>,
   <<65, 100, 109, 105, 110>>,
   <<10, 10, 10>>}

RECURSIVE Concat(_, _)
Concat(parts, i) ==
  IF i > Len(parts) THEN <<>> ELSE parts[i] \o Concat(parts, i + 1)

Candidates ==
  {Concat(parts, 1) : parts \in UNION {[1..n -> Pieces] : n \in 0..MaxPieces}}

InitStrength ==
  /\ cfg = Null /\ tasks = <<>> /\ store = <<>> /\ provider = Null
  /\ auth = AuthStart
  /\ keyCache = <<>>
  /\ now = 0
  /\ rng = 0
  /\ sealed = <<>>
  /\ defaultIterations = FallbackIterations
  /\ envs = <<>>
  /\ cnt = [ops |-> 0, enc |-> 0, tick |-> 0, session |-> 0, fill |-> 0]
  /\ hist = <<>>
  /\ \E password \in Candidates :
       res = [op |-> "candidate", password |-> password]

\* a caller evaluates cryptoManager.analyzePasswordStrength(password)
AnalyzePassword ==
  /\ res.op = "candidate"
  /\ res' = [op |-> "analyzePasswordStrength", password |-> res.password,
             val |-> analyzePasswordStrength(res.password)]
  /\ UNCHANGED <<cfg, tasks, store, provider, auth, keyCache, now, rng, sealed, defaultIterations, envs,
                 cnt, hist>>

NextStrength == AnalyzePassword

SpecStrength == InitStrength /\ [][NextStrength]_vars

(***************************************************************************)
(* ConfigManager and the appConfig proxy.  process.env is a function from  *)
(* the names of the variables that are set to their values.  The values    *)
(* the code inspects character by character (the Firebase settings, the    *)
(* numbers) are sequences of code units; the values it only compares (the  *)
(* environment, the security level, 'true', the version) are strings.  A   *)
(* number is a record that says whether it is NaN.                         *)
(***************************************************************************)
NaN == [nan |-> TRUE, v |-> 0]
Num(n) == [nan |-> FALSE, v |-> n]

\* a < b on numbers: false as soon as one of them is NaN
LessThan(a, b) == ~a.nan /\ ~b.nan /\ a.v < b.v

\* process.env[name] || fallback
EnvText(env, name, fallback) ==
  IF name \in DOMAIN env /\ env[name] # "" THEN env[name] ELSE fallback
EnvChars(env, name, fallback) ==
  IF name \in DOMAIN env /\ env[name] # <<>> THEN env[name] ELSE fallback

RECURSIVE DigitsValue(_, _, _)
DigitsValue(s, i, acc) ==
  IF i > Len(s) \/ s[i] \notin 48..57 THEN acc
  ELSE DigitsValue(s, i + 1, acc * 10 + (s[i] - 48))

\* parseInt(s) without a radix, for texts in decimal notation: white space
\* and a sign are skipped, the digits that follow are read, and a text
\* with no digit there is NaN
parseInt(s) ==
  LET rest == {i \in 1..Len(s) : s[i] \notin {9, 10, 13, 32}}
      first == IF rest = {} THEN Len(s) + 1
               ELSE CHOOSE i \in rest : \A j \in rest : i <= j
      signed == first <= Len(s) /\ s[first] \in {43, 45}
      start == IF signed THEN first + 1 ELSE first
  IN IF start > Len(s) \/ s[start] \notin 48..57 THEN NaN
     ELSE IF signed /\ s[first] = 45 THEN Num(0 - DigitsValue(s, start, 0))
     ELSE Num(DigitsValue(s, start, 0))

\* loadConfiguration(): safeGet and getRequiredEnvVar are part of it
loadConfiguration(env) ==
  LET firebaseEnvNames ==
        <<"NEXT_PUBLIC_FIREBASE_API_KEY", "NEXT_PUBLIC_FIREBASE_AUTH_DOMAIN",
          "NEXT_PUBLIC_FIREBASE_PROJECT_ID",
          "NEXT_PUBLIC_FIREBASE_STORAGE_BUCKET",
          "NEXT_PUBLIC_FIREBASE_MESSAGING_SENDER_ID",
          "NEXT_PUBLIC_FIREBASE_APP_ID">>
      environment ==
        EnvText(env, "NEXT_PUBLIC_APP_ENV", EnvText(env, "NODE_ENV", "development"))
      allowMissing == environment # "production"
      missing == SelectSeq(firebaseEnvNames,
                           LAMBDA n : EnvChars(env, n, <<>>) = <<>>)
      safeGet(i) == EnvChars(env, firebaseEnvNames[i], <<>>)
      number(name, fallback) == parseInt(EnvChars(env, name, fallback))
      security ==
        [encryptionIterations |->
           number("NEXT_PUBLIC_ENCRYPTION_ITERATIONS", <<51, 48, 48, 48, 48, 48>>),
         maxLoginAttempts |-> number("NEXT_PUBLIC_MAX_LOGIN_ATTEMPTS", <<53>>),
         lockoutDuration |->
           number("NEXT_PUBLIC_LOCKOUT_DURATION", <<57, 48, 48, 48, 48, 48>>),
         sessionTimeout |->
           number("NEXT_PUBLIC_SESSION_TIMEOUT", <<51, 54, 48, 48, 48, 48, 48>>),
         idleTimeout |->
           number("NEXT_PUBLIC_IDLE_TIMEOUT", <<49, 56, 48, 48, 48, 48, 48>>),
         securityLevel |-> EnvText(env, "NEXT_PUBLIC_SECURITY_LEVEL", "high"),
         enableSecurityHeaders |->
           EnvText(env, "NEXT_PUBLIC_ENABLE_SECURITY_HEADERS", "") = "true"]
  IN IF ~allowMissing /\ missing # <<>>
       THEN [ok |-> FALSE,
             err |-> [message |-> "Required environment variable is not set",
                      name |-> missing[1]]]
       ELSE [ok |-> TRUE,
             val |-> [firebase |-> [apiKey |-> safeGet(1),
                                    authDomain |-> safeGet(2),
                                    projectId |-> safeGet(3),
                                    storageBucket |-> safeGet(4),
                                    messagingSenderId |-> safeGet(5),
                                    appId |-> safeGet(6)],
                      security |-> security,
                      environment |-> environment,
                      version |-> EnvText(env, "npm_package_version", "1.0.0")]]

startsWith(text, word) ==
  Len(text) >= Len(word) /\ SubSeq(text, 1, Len(word)) = word
endsWith(text, word) ==
  /\ Len(text) >= Len(word)
  /\ SubSeq(text, Len(text) - Len(word) + 1, Len(text)) = word

\* the message of the error validateFirebaseConfig throws, if any
validateFirebaseConfig(firebase) ==
  IF ~startsWith(firebase.apiKey, <<65, 73, 122, 97>>) \/ Len(firebase.apiKey) < 35
    THEN "Invalid Firebase API key format"
  ELSE IF ~endsWith(firebase.authDomain,
                    <<46, 102, 105, 114, 101, 98, 97, 115, 101, 97, 112, 112,
                      46, 99, 111, 109>>)
    THEN "Invalid Firebase auth domain format"
  ELSE IF \/ firebase.projectId = <<>>
          \/ \E i \in 1..Len(firebase.projectId) :
               firebase.projectId[i] \notin (97..122) \cup (48..57) \cup {45}
    THEN "Invalid Firebase project ID format"
  ELSE IF \/ ~includes(firebase.appId, <<58>>)
          \/ ~includes(firebase.appId, <<119, 101, 98, 58>>)
    THEN "Invalid Firebase app ID format"
  ELSE NoError

validateSecurityConfig(security) ==
  IF LessThan(security.encryptionIterations, Num(100000))
    THEN "Encryption iterations must be at least 100,000 for security"
  ELSE IF \/ LessThan(security.maxLoginAttempts, Num(3))
          \/ LessThan(Num(10), security.maxLoginAttempts)
    THEN "Max login attempts must be between 3 and 10"
  ELSE IF LessThan(security.lockoutDuration, Num(300000))
    THEN "Lockout duration must be at least 5 minutes"
  ELSE IF LessThan(security.sessionTimeout, Num(900000))
    THEN "Session timeout must be at least 15 minutes"
  ELSE IF LessThan(security.sessionTimeout, security.idleTimeout)
    THEN "Idle timeout cannot be longer than session timeout"
  ELSE IF security.securityLevel \notin {"low", "medium", "high", "maximum"}
    THEN "Security level must be one of: low, medium, high, maximum"
  ELSE NoError

validateEnvironmentConfig(config) ==
  IF config.environment = "production" /\ config.security.securityLevel = "low"
    THEN "Production environment cannot use low security level"
  ELSE NoError

validateConfiguration(config) ==
  IF validateFirebaseConfig(config.firebase) # NoError
    THEN validateFirebaseConfig(config.firebase)
  ELSE IF validateSecurityConfig(config.security) # NoError
    THEN validateSecurityConfig(config.security)
  ELSE validateEnvironmentConfig(config)

\* getFallbackConfig(); the proxy holds a second copy of the same literal
getFallbackConfig ==
  [firebase |-> [apiKey |-> <<>>, authDomain |-> <<>>, projectId |-> <<>>,
                 storageBucket |-> <<>>, messagingSenderId |-> <<>>,
                 appId |-> <<>>],
   security |-> [encryptionIterations |-> Num(300000),
                 maxLoginAttempts |-> Num(5),
                 lockoutDuration |-> Num(900000),
                 sessionTimeout |-> Num(3600000),
                 idleTimeout |-> Num(1800000),
                 securityLevel |-> "high",
                 enableSecurityHeaders |-> TRUE],
   environment |-> "development",
   version |-> "1.0.0"]

\* initialize() on the manager m; isBrowser is typeof window !== 'undefined'
initialize(m, env, isBrowser) ==
  LET Validated(loaded) ==
        LET invalid == IF loaded.ok THEN validateConfiguration(loaded.val)
                       ELSE NoError
            error == IF loaded.ok THEN [message |-> invalid, name |-> ""]
                     ELSE loaded.err
            failed == [m EXCEPT !.config = IF loaded.ok THEN loaded.val ELSE @,
                                !.initializationError = error]
        IN IF loaded.ok /\ invalid = NoError
             THEN [ok |-> TRUE, val |-> loaded.val,
                   m |-> [m EXCEPT !.config = loaded.val,
                                   !.isValidated = TRUE]]
           ELSE IF isBrowser
             THEN [ok |-> TRUE, val |-> getFallbackConfig, m |-> failed]
           ELSE [ok |-> FALSE, err |-> error, m |-> failed]
  IN IF m.config # Null /\ m.isValidated
       THEN [ok |-> TRUE, val |-> m.config, m |-> m]
       ELSE CHOOSE r \in {Validated(loaded) :
                            loaded \in {loadConfiguration(env)}} : TRUE

getConfig(m) ==
  IF m.config = Null \/ ~m.isValidated
    THEN [ok |-> FALSE,
          err |-> [message |-> "Configuration not initialized. Call initialize() first.",
                   name |-> ""]]
    ELSE [ok |-> TRUE, val |-> m.config]

\* the get trap of the appConfig proxy for the property prop
appConfigGet(c, prop) ==
  LET First(i) ==
        LET cached == IF i.ok THEN i.val ELSE getFallbackConfig
        IN [val |-> cached[prop],
            c |-> [c EXCEPT !.manager = i.m, !.cached = cached]]
  IN IF c.cached # Null THEN [val |-> c.cached[prop], c |-> c]
     ELSE CHOOSE r \in {First(i) : i \in {initialize(c.manager, c.env,
                                                      c.isBrowser)}} : TRUE

(***************************************************************************)
(* The configuration read under one setting of the environment.  Either    *)
(* all six Firebase variables are set to well-formed values, or one of     *)
(* them is missing or malformed, or none is set.                           *)
(***************************************************************************)
FirebaseValid ==
  [NEXT_PUBLIC_FIREBASE_API_KEY |->
     [i \in 1..35 |-> IF i = 1 THEN 65 ELSE IF i = 2 THEN 73
                      ELSE IF i = 3 THEN 122 ELSE IF i = 4 THEN 97 ELSE 120],
   NEXT_PUBLIC_FIREBASE_AUTH_DOMAIN |->
     <<112, 46, 102, 105, 114, 101, 98, 97, 115, 101, 97, 112, 112, 46, 99,
       111, 109>>,
   NEXT_PUBLIC_FIREBASE_PROJECT_ID |-> <<112, 45, 49>>,
   NEXT_PUBLIC_FIREBASE_STORAGE_BUCKET |-> <<112, 46, 97, 112, 112>>,
   NEXT_PUBLIC_FIREBASE_MESSAGING_SENDER_ID |-> <<51, 57>>,
   NEXT_PUBLIC_FIREBASE_APP_ID |-> <<49, 58, 119, 101, 98, 58, 97>>]

\* "AIza" alone, "x.com", "P", "", "" and "1:a"
FirebaseMalformed ==
  [NEXT_PUBLIC_FIREBASE_API_KEY |-> <<65, 73, 122, 97>>,
   NEXT_PUBLIC_FIREBASE_AUTH_DOMAIN |-> <<120, 46, 99, 111, 109>>,
   NEXT_PUBLIC_FIREBASE_PROJECT_ID |-> <<80>>,
   NEXT_PUBLIC_FIREBASE_STORAGE_BUCKET |-> <<>>,
   NEXT_PUBLIC_FIREBASE_MESSAGING_SENDER_ID |-> <<>>,
   NEXT_PUBLIC_FIREBASE_APP_ID |-> <<49, 58, 97>>]

FirebaseSettings ==
  {FirebaseValid, Without(FirebaseValid, DOMAIN FirebaseValid)}
    \cup {Without(FirebaseValid, {n}) : n \in DOMAIN FirebaseValid}
    \cup {[FirebaseValid EXCEPT ![n] = FirebaseMalformed[n]] :
            n \in DOMAIN FirebaseValid}

EnvironmentSettings ==
  {Without(FirebaseValid, DOMAIN FirebaseValid),
   [NODE_ENV |-> "production"],
   [NODE_ENV |-> "test"],
   [NEXT_PUBLIC_APP_ENV |-> "staging", NODE_ENV |-> "production"],
   [NEXT_PUBLIC_APP_ENV |-> "production", NODE_ENV |-> "development"]}

\* no security variable, 50000 iterations, or "abc" iterations
SecuritySettings ==
  {Without(FirebaseValid, DOMAIN FirebaseValid),
   [NEXT_PUBLIC_ENCRYPTION_ITERATIONS |-> <<53, 48, 48, 48, 48>>],
   [NEXT_PUBLIC_ENCRYPTION_ITERATIONS |-> <<97, 98, 99>>]}

InitConfig ==
  /\ auth = AuthStart
  /\ keyCache = <<>>
  /\ now = 0
  /\ rng = 0
  /\ sealed = <<>>
  /\ defaultIterations = FallbackIterations
  /\ envs = <<>>
  /\ res = [op |-> "none"]
  /\ cnt = [ops |-> 0, enc |-> 0, tick |-> 0, session |-> 0, fill |-> 0]
  /\ hist = <<>>
  /\ tasks = <<>> /\ store = <<>> /\ provider = Null
  /\ \E f \in FirebaseSettings, e \in EnvironmentSettings,
        s \in SecuritySettings, isBrowser \in BOOLEAN :
       cfg = [env |-> f @@ e @@ s, isBrowser |-> isBrowser,
              manager |-> [config |-> Null, isValidated |-> FALSE,
                           initializationError |-> Null],
              cached |-> Null]

\* what every call on the configuration does besides its own effect: it
\* counts, and the outcome joins the record of the calls made
ConfigCall(r) ==
  /\ cnt.ops < MaxConfigOps
  /\ cnt' = [cnt EXCEPT !.ops = @ + 1]
  /\ res' = r
  /\ hist' = Append(hist, r)
  /\ UNCHANGED <<keyCache, now, rng, sealed, defaultIterations, envs, auth,
                 tasks, store, provider>>

\* a caller evaluates configManager.initialize()
Initialize ==
  \E i \in {initialize(cfg.manager, cfg.env, cfg.isBrowser)} :
     /\ cfg' = [cfg EXCEPT !.manager = i.m]
     /\ ConfigCall([op |-> "initialize", ok |-> i.ok,
                    val |-> IF i.ok THEN i.val ELSE Null,
                    err |-> IF i.ok THEN Null ELSE i.err])

\* a caller evaluates configManager.getConfig()
GetConfig ==
  \E g \in {getConfig(cfg.manager)} :
     /\ UNCHANGED cfg
     /\ ConfigCall([op |-> "getConfig", ok |-> g.ok,
                    val |-> IF g.ok THEN g.val ELSE Null,
                    err |-> IF g.ok THEN Null ELSE g.err])

\* a caller evaluates configManager.isProduction() or isDevelopment()
IsEnvironment ==
  \E e \in {"production", "development"} :
    \E g \in {getConfig(cfg.manager)} :
       /\ UNCHANGED cfg
       /\ ConfigCall([op |-> "is", environment |-> e, ok |-> g.ok,
                      val |-> g.ok /\ g.val.environment = e,
                      err |-> IF g.ok THEN Null ELSE g.err])

\* a module reads appConfig.firebase or appConfig.environment
ReadAppConfig ==
  \E prop \in {"firebase", "environment"} :
    \E g \in {appConfigGet(cfg, prop)} :
       /\ cfg' = g.c
       /\ ConfigCall([op |-> "appConfig", prop |-> prop, ok |-> TRUE,
                      val |-> g.val, err |-> Null])

NextConfig ==
  \/ Initialize
  \/ GetConfig
  \/ IsEnvironment
  \/ ReadAppConfig

SpecConfig == InitConfig /\ [][NextConfig]_vars

(***************************************************************************)
(* Calls in flight.  deriveKeyFromPassword, encryptData and decryptData    *)
(* are async methods: a call runs up to its next await, is suspended       *)
(* there, and is resumed by the event loop in any order with the other     *)
(* calls.  A task is one call: `pc` names the await it is suspended at     *)
(* ("done" once settled), `options` the destructured derivation options,   *)
(* `pending` the tasks that were in flight when it started, `derived`      *)
(* whether the call itself ran PBKDF2 and stored the key in the cache.     *)
(***************************************************************************)
Resolved(r, dflt, options) ==
  [salt |-> IF "salt" \in DOMAIN options THEN options.salt
            ELSE RandomBytes(r + 1, DEFAULT_SALT_LENGTH),
   iterations |-> IF "iterations" \in DOMAIN options THEN options.iterations
                  ELSE dflt,
   keyLength |-> IF "keyLength" \in DOMAIN options THEN options.keyLength
                 ELSE DEFAULT_KEY_LENGTH]

NewTask(op, password, options, arg, r0) ==
  [op |-> op, pc |-> "start", password |-> password, options |-> options,
   arg |-> arg, r0 |-> r0, key |-> Null, derived |-> FALSE,
   pending |-> {i \in 1..Len(tasks) : tasks[i].pc # "done"},
   ok |-> FALSE, err |-> NoError, val |-> Null]

Settled(t, ok, err, val) ==
  [t EXCEPT !.pc = "done", !.ok = ok, !.err = err, !.val = val]

\* deriveKeyFromPassword threw inside the call t
DeriveFailed(t, e) ==
  Settled(t, FALSE,
          CASE t.op = "derive" -> e
            [] t.op = "encrypt" -> ErrEncrypt
            [] t.op = "decrypt" -> decryptFailure(e),
          Null)

\* deriveKeyFromPassword returned secureKey to the call t
Derived(t, secureKey) ==
  IF t.op = "derive" THEN Settled(t, TRUE, NoError, secureKey)
  ELSE [t EXCEPT !.pc = t.op, !.key = secureKey]

\* deriveKeyFromPassword from its first line to its first await
BeginDerive(t) ==
  LET d == deriveKeyFromPassword(keyCache, rng, now, defaultIterations,
                                 t.password, t.options)
  IN IF SeqIncludes(d.calls, "importKey") THEN [t EXCEPT !.pc = "importKey"]
     ELSE IF d.ok THEN Derived(t, d.val)
     ELSE DeriveFailed(t, d.err)

\* the cache as the call t saw it when deriveKeyFromPassword returned t.key
OwnCache(t) ==
  MapSet(<<>>, createCacheKey(t.password, t.options.salt,
                              t.options.iterations), t.key)

AsyncDeriveOptions == {FillOptions(PreFill)}
AsyncPlain == <<115>>

\* PreFill - 1 derivations and one encryptData, made one after the other at
\* time 0; the calls in flight start then or when the cached keys are stale
InitAsync ==
  LET w == WarmedUp([k \in 1..(PreFill - 1) |-> FillOptions(k - 1)])
      e == encryptData(w.cache, 0, 0, FallbackIterations, <<>>, AsyncPlain,
                       PwA, <<>>)
  IN /\ cfg = Null /\ tasks = <<>> /\ store = <<>> /\ provider = Null
     /\ auth = AuthStart
     /\ keyCache = e.cache
     /\ hist = w.hist
     /\ now \in {0, CacheTTL}
     /\ rng = e.rng
     /\ sealed = e.sealed
     /\ defaultIterations = FallbackIterations
     /\ envs = <<e.val>>
     /\ res = [op |-> "none"]
     /\ cnt = [ops |-> 0, enc |-> 0, tick |-> 0, session |-> 0, fill |-> 0]

StartTask(t) ==
  /\ Len(tasks) < MaxTasks
  /\ tasks' = Append(tasks, t)
  /\ UNCHANGED <<cfg, store, provider, auth, keyCache, now, sealed,
                 defaultIterations, envs, res, cnt, hist>>

StartDerive ==
  \E options \in AsyncDeriveOptions :
    /\ StartTask(BeginDerive(NewTask("derive", PwA,
                   Resolved(rng, defaultIterations, options), <<>>, rng)))
    /\ rng' = IF "salt" \in DOMAIN options THEN rng ELSE rng + 1

StartEncrypt ==
  LET e == encryptData(keyCache, rng, now, defaultIterations, sealed,
                       AsyncPlain, PwA, <<>>)
      t == NewTask("encrypt", PwA,
                   Resolved(rng + 2, defaultIterations,
                            [salt |-> RandomBytes(rng + 1, DEFAULT_SALT_LENGTH),
                             keyLength |-> DEFAULT_KEY_LENGTH]),
                   AsyncPlain, rng)
  IN IF e.calls = <<>>
       THEN StartTask(Settled(t, FALSE, e.err, Null)) /\ rng' = rng
       ELSE StartTask(BeginDerive(t)) /\ rng' = rng + 2

StartDecrypt ==
  \E n \in 1..Len(envs) :
    LET x == decryptData(keyCache, rng, now, defaultIterations, sealed,
                         envs[n], PwA)
        keyOpts == IF "keyLength" \in DOMAIN envs[n]
                     THEN [salt |-> base64ToArrayBuffer(envs[n].salt),
                           iterations |-> envs[n].iterations,
                           keyLength |-> envs[n].keyLength]
                     ELSE [salt |-> base64ToArrayBuffer(envs[n].salt),
                           iterations |-> envs[n].iterations]
        t == NewTask("decrypt", PwA, <<>>, envs[n], rng)
    IN /\ IF SeqIncludes(x.calls, "digest")
            THEN StartTask([t EXCEPT !.pc = "digest",
                              !.options = Resolved(rng, defaultIterations,
                                                   keyOpts)])
            ELSE StartTask(Settled(t, FALSE, x.err, Null))
       /\ rng' = rng

\* the event loop resumes the call tasks[i] at the await it is suspended at
\* and runs it to its next await or to its end
ResumeTask ==
  \E i \in 1..Len(tasks) :
    LET t == tasks[i]
        ck == createCacheKey(t.password, t.options.salt, t.options.iterations)
        f == deriveKeyFromPassword(<<>>, rng, now, defaultIterations,
                                   t.password, t.options)
        x == decryptData(keyCache, rng, now, defaultIterations, sealed,
                         t.arg, t.password)
        e == encryptData(OwnCache(t), t.r0, t.key.timestamp,
                         defaultIterations, sealed, t.arg, t.password, <<>>)
        y == decryptData(OwnCache(t), rng, t.key.timestamp,
                         defaultIterations, sealed, t.arg, t.password)
        derivedNow == t.pc = "deriveKey" /\ f.ok
        sealedNow == t.pc = "encrypt" /\ e.ok
        next ==
          CASE t.pc = "importKey" -> [t EXCEPT !.pc = "deriveKey"]
            [] t.pc = "deriveKey" ->
                 IF f.ok THEN Derived([t EXCEPT !.derived = TRUE], f.val)
                 ELSE DeriveFailed(t, f.err)
            [] t.pc = "digest" /\ t.op = "decrypt" ->
                 IF SeqIncludes(x.calls, "keyCache.get") THEN BeginDerive(t)
                 ELSE Settled(t, FALSE, x.err, Null)
            [] t.pc = "encrypt" ->
                 IF e.ok THEN [t EXCEPT !.pc = "digest", !.val = e.val]
                 ELSE Settled(t, FALSE, e.err, Null)
            [] t.pc = "digest" /\ t.op = "encrypt" ->
                 Settled(t, TRUE, NoError, t.val)
            [] t.pc = "decrypt" ->
                 Settled(t, y.ok, y.err, IF y.ok THEN y.val ELSE Null)
    IN /\ t.pc # "done"
       /\ tasks' = [tasks EXCEPT ![i] = next]
       /\ keyCache' = IF derivedNow THEN cacheKey(keyCache, ck, f.val)
                      ELSE keyCache
       /\ sealed' = IF sealedNow THEN e.sealed ELSE sealed
       /\ envs' = IF next.pc = "done" /\ next.op = "encrypt" /\ next.ok
                    THEN Append(envs, next.val) ELSE envs
       /\ UNCHANGED <<cfg, store, provider, auth, now, rng,
                      defaultIterations, res, cnt, hist>>

NextAsync ==
  \/ StartDerive
  \/ StartEncrypt
  \/ StartDecrypt
  \/ ResumeTask

SpecAsync == InitAsync /\ [][NextAsync]_vars

(***************************************************************************)
(* registerUser and authenticateUser calls in flight.  Both are async:     *)
(* they are suspended at `await this.deriveKeys(...)` and at               *)
(* `await this.generateDeviceFingerprint()`, and store the encryption key  *)
(* when they are resumed from the second.  clearAuthState is synchronous   *)
(* and can run while a call is suspended.  cnt.session counts the          *)
(* clearAuthState calls; a task remembers in `epoch` how many had been     *)
(* made when it started.                                                   *)
(***************************************************************************)
AuthTask(op, masterPassword, reg, r0) ==
  [op |-> op, pc |-> "deriveKeys", password |-> masterPassword, reg |-> reg,
   r0 |-> r0, epoch |-> cnt.session, ok |-> FALSE]

StartAuthTask(t) ==
  /\ Len(tasks) < MaxTasks
  /\ tasks' = Append(tasks, t)
  /\ UNCHANGED <<cfg, store, provider, auth, keyCache, now, sealed,
                 defaultIterations, envs, res, cnt, hist>>

\* registerUser up to its first await: the two salts are drawn
StartRegister ==
  \E masterPassword \in AuthPwPool :
    /\ StartAuthTask(AuthTask("registerUser", masterPassword, 0, rng))
    /\ rng' = registerUser(rng, now, auth.device, UserEmail,
                           masterPassword).rng

StartAuthenticate ==
  \E i \in 1..Len(auth.regs), masterPassword \in AuthPwPool :
    /\ StartAuthTask(AuthTask("authenticateUser", masterPassword, i, rng))
    /\ rng' = rng

\* the event loop resumes the call tasks[i]
ResumeAuthTask ==
  \E i \in 1..Len(tasks) :
    LET t == tasks[i]
        record == auth.regs[t.reg].record
        g == authenticateUser(auth.currentEncryptionKey,
                              auth.deviceFingerprint, now, auth.device,
                              auth.regs[t.reg].email, t.password, record)
        mismatch ==
          authHashDiffers(deriveKeys(t.password, record.authSalt,
                                     record.encryptionSalt).authKey, record)
    IN /\ t.pc # "done"
       /\ CASE t.pc = "deriveKeys" /\ t.op = "authenticateUser" /\ mismatch ->
                 /\ tasks' = [tasks EXCEPT ![i].pc = "done"]
                 /\ auth' = auth
            [] t.pc = "deriveKeys" /\ ~(t.op = "authenticateUser" /\ mismatch) ->
                 /\ tasks' = [tasks EXCEPT ![i].pc = "fingerprint"]
                 /\ auth' = auth
            [] t.pc = "fingerprint" /\ t.op = "registerUser" ->
                 /\ tasks' = [tasks EXCEPT ![i].pc = "done", ![i].ok = TRUE]
                 /\ auth' = AfterRegister(auth, t.r0, now, UserEmail,
                                          t.password)
            [] t.pc = "fingerprint" /\ t.op = "authenticateUser" ->
                 /\ tasks' = [tasks EXCEPT ![i].pc = "done",
                                           ![i].ok = g.val.success]
                 /\ auth' = [auth EXCEPT
                               !.currentEncryptionKey = g.currentEncryptionKey,
                               !.deviceFingerprint = g.deviceFingerprint,
                               !.cleared = @ /\ ~g.val.success]
       /\ UNCHANGED <<cfg, store, provider, keyCache, now, rng, sealed,
                      defaultIterations, envs, res, cnt, hist>>

\* lock or sign-out while calls may be in flight
ClearAuthStateNow ==
  /\ cnt.session < MaxSessions
  /\ auth' = [auth EXCEPT !.currentEncryptionKey = clearAuthState(@),
                          !.cleared = TRUE]
  /\ cnt' = [cnt EXCEPT !.session = @ + 1]
  /\ UNCHANGED <<cfg, tasks, store, provider, keyCache, now, rng, sealed,
                 defaultIterations, envs, res, hist>>

NextSession ==
  \/ StartRegister
  \/ StartAuthenticate
  \/ ResumeAuthTask
  \/ ClearAuthStateNow

SpecSession == InitAuth /\ [][NextSession]_vars

(***************************************************************************)
(* SecureIndexedDBManager (secure-storage.ts).  The object store is a map  *)
(* from item id to item; writeToStore is store.put, readFromStore is       *)
(* store.get, deleteFromStore is store.delete.  The values stored are       *)
(* strings without quotes or backslashes, which JSON.stringify wraps in    *)
(* double quotes and JSON.parse unwraps.                                   *)
(***************************************************************************)
Quote == 34
Colon == 58
AppVersion == "appConfig.version"

generateStorageKey(userId, key) == userId \o <<Colon>> \o key

stringifyText(value) == <<Quote>> \o value \o <<Quote>>

\* JSON.parse of a text: [ok, val]
parseText(text) ==
  IF Len(text) >= 2 /\ text[1] = Quote /\ text[Len(text)] = Quote
    THEN [ok |-> TRUE, val |-> SubSeq(text, 2, Len(text) - 1)]
    ELSE [ok |-> FALSE, val |-> <<>>]

\* setItem(key, value, password, userId, dataType, options)
setItem(st, cache, r, t, dflt, tbl, key, value, password, userId, options) ==
  LET id == generateStorageKey(userId, key)
      Item(encryptedData) ==
        [id |-> id,
         encryptedData |-> encryptedData,
         metadata |->
           [userId |-> userId, dataType |-> "setting",
            createdAt |-> t, lastAccessed |-> t,
            expiresAt |-> IF "ttl" \in DOMAIN options /\ options.ttl # 0
                            THEN Num(t + options.ttl) ELSE NaN,
            version |-> AppVersion]]
      Stored(e) ==
        [ok |-> e.ok,
         err |-> IF e.ok THEN NoError ELSE "Failed to store data securely",
         store |-> IF e.ok THEN MapSet(st, id, Item(e.val)) ELSE st,
         cache |-> e.cache, rng |-> e.rng, sealed |-> e.sealed]
  IN CHOOSE s \in {Stored(e) :
                     e \in {encryptData(cache, r, t, dflt, tbl,
                                        stringifyText(value), password,
                                        <<>>)}} : TRUE

\* getItem(key, password, userId): `at` names the place where it returned,
\* `isNull` whether it returned null
getItem(st, cache, r, t, dflt, tbl, key, password, userId) ==
  LET id == generateStorageKey(userId, key)
      Out(at, isNull, val, s, c) ==
        [at |-> at, isNull |-> isNull, val |-> val, store |-> s, cache |-> c]
      Read(item) ==
        LET expired == /\ ~item.metadata.expiresAt.nan
                       /\ item.metadata.expiresAt.v # 0
                       /\ t > item.metadata.expiresAt.v
            touched ==
              MapSet(st, id, [item EXCEPT !.metadata.lastAccessed = t])
            Decrypted(d) ==
              IF ~d.ok THEN Out("decrypt", TRUE, <<>>, touched, d.cache)
              ELSE IF ~parseText(d.val).ok
                THEN Out("parse", TRUE, <<>>, touched, d.cache)
              ELSE Out("returned", FALSE, parseText(d.val).val, touched,
                       d.cache)
        IN IF expired
             THEN Out("expired", TRUE, <<>>, MapDelete(st, id), cache)
             ELSE CHOOSE g \in
                    {Decrypted(d) :
                       d \in {decryptData(cache, r, t, dflt, tbl,
                                          item.encryptedData, password)}} :
                    TRUE
  IN IF ~MapHas(st, id) THEN Out("missing", TRUE, <<>>, st, cache)
     ELSE CHOOSE g \in {Read(item) : item \in {MapGet(st, id)}} : TRUE

\* "u1", "k", "b"
StorageUser == <<117, 49>>
StorageKeys == {<<107>>}
StoragePasswords == {PwA, <<98>>, <<>>}
StorageOptions == {<<>>, [ttl |-> CacheTTL \div 2]}

InitStorage ==
  /\ cfg = Null /\ tasks = <<>> /\ store = <<>> /\ provider = Null
  /\ auth = AuthStart
  /\ keyCache = <<>>
  /\ hist = <<>>
  /\ now = 1
  /\ rng = 0
  /\ sealed = <<>>
  /\ defaultIterations = FallbackIterations
  /\ envs = <<>>
  /\ res = [op |-> "none"]
  /\ cnt = [ops |-> 0, enc |-> 0, tick |-> 0, session |-> 0, fill |-> 0]

SetItem ==
  /\ cnt.ops < MaxStorageOps
  /\ \E key \in StorageKeys, password \in StoragePasswords,
        options \in StorageOptions :
       \E s \in {setItem(store, keyCache, rng, now, defaultIterations,
                          sealed, key, AsyncPlain, password, StorageUser,
                          options)} :
          /\ store' = s.store
          /\ keyCache' = s.cache
          /\ rng' = s.rng
          /\ sealed' = s.sealed
          /\ res' = [op |-> "setItem", key |-> key, password |-> password,
                     ok |-> s.ok, err |-> s.err, before |-> store]
  /\ cnt' = [cnt EXCEPT !.ops = @ + 1]
  /\ UNCHANGED <<cfg, tasks, provider, auth, now, defaultIterations, envs,
                 hist>>

GetItem ==
  /\ cnt.ops < MaxStorageOps
  /\ \E key \in StorageKeys, password \in StoragePasswords :
       \E g \in {getItem(store, keyCache, rng, now, defaultIterations,
                          sealed, key, password, StorageUser)} :
          /\ store' = g.store
          /\ keyCache' = g.cache
          /\ res' = [op |-> "getItem", key |-> key, password |-> password,
                     at |-> g.at, isNull |-> g.isNull, val |-> g.val,
                     before |-> store]
  /\ cnt' = [cnt EXCEPT !.ops = @ + 1]
  /\ UNCHANGED <<cfg, tasks, provider, auth, now, rng, sealed,
                 defaultIterations, envs, hist>>

NextStorage ==
  \/ SetItem
  \/ GetItem
  \/ TickCache

SpecStorage == InitStorage /\ [][NextStorage]_vars

(***************************************************************************)
(* AuthProvider (contexts/AuthContext.tsx).  `provider` is the AuthState   *)
(* kept with useState; setState(prev => ...) is applied to the state of    *)
(* the moment.  registerUser, signIn, signOut and unlockVault are async:   *)
(* a call is a task suspended at one of its awaits, and the outcome of the *)
(* awaited service is chosen when the task is resumed.  A task remembers   *)
(* in `signedIn` whether a user was signed in when it was called.          *)
(***************************************************************************)
ProviderStart ==
  [user |-> Null, isAuthenticated |-> FALSE, isVaultUnlocked |-> FALSE,
   isLoading |-> TRUE, error |-> Null]

\* signUpWithEmail, signInWithEmail, signOutUser: the promise resolves or
\* rejects
FirebaseOutcomes == {"resolved", "rejected"}

\* what MasterPasswordService.unlockVault, setupMasterPassword and
\* SecureVaultManager.unlockVault hand back to the provider: a result with
\* success, requiresSetup or error, no result, or a rejection
VaultOutcomes == {"success", "requiresSetup", "error", "none", "rejected"}

OutcomesAt(pc) ==
  IF pc \in {"signUpWithEmail", "signInWithEmail", "signOutUser"}
    THEN FirebaseOutcomes ELSE VaultOutcomes

InitProvider ==
  /\ cfg = Null /\ tasks = <<>> /\ store = <<>>
  /\ provider = ProviderStart
  /\ auth = AuthStart
  /\ keyCache = <<>>
  /\ hist = <<>>
  /\ now = 0
  /\ rng = 0
  /\ sealed = <<>>
  /\ defaultIterations = FallbackIterations
  /\ envs = <<>>
  /\ res = [op |-> "none"]
  /\ cnt = [ops |-> 0, enc |-> 0, tick |-> 0, session |-> 0, fill |-> 0]

ProviderStep(p, ts) ==
  /\ provider' = p
  /\ tasks' = ts
  /\ UNCHANGED <<cfg, store, auth, keyCache, now, rng, sealed,
                 defaultIterations, envs, res, cnt, hist>>

\* a component calls op; the call runs up to its first await pc
ProviderCall(op, pc, p) ==
  /\ Len(tasks) < MaxProviderCalls
  /\ ProviderStep(p, Append(tasks, [op |-> op, pc |-> pc,
                                    signedIn |-> provider.isAuthenticated]))

\* the timer of the mount effect fires, once (cnt.tick)
SessionChecked ==
  /\ cnt.tick = 0
  /\ provider' = [provider EXCEPT !.isLoading = FALSE]
  /\ cnt' = [cnt EXCEPT !.tick = 1]
  /\ UNCHANGED <<cfg, tasks, store, auth, keyCache, now, rng, sealed,
                 defaultIterations, envs, res, hist>>

CallRegisterUser ==
  ProviderCall("registerUser", "signUpWithEmail",
               [provider EXCEPT !.isLoading = TRUE, !.error = Null])

CallSignIn ==
  ProviderCall("signIn", "signInWithEmail",
               [provider EXCEPT !.isLoading = TRUE, !.error = Null])

CallSignOut ==
  ProviderCall("signOut", "signOutUser", [provider EXCEPT !.isLoading = TRUE])

CallUnlockVault == ProviderCall("unlockVault", "unlockVault", provider)

LockVault ==
  ProviderStep([provider EXCEPT !.isVaultUnlocked = FALSE], tasks)

\* the event loop resumes the call tasks[i] with the outcome of its await
ResumeProvider ==
  \E i \in 1..Len(tasks) : \E outcome \in OutcomesAt(tasks[i].pc) :
    LET t == tasks[i]
        At(pc) == [tasks EXCEPT ![i].pc = pc]
        SignedIn == [provider EXCEPT !.user = [uid |-> "cred.user"],
                                     !.isAuthenticated = TRUE,
                                     !.isVaultUnlocked = TRUE,
                                     !.isLoading = FALSE]
        SignedOut == [ProviderStart EXCEPT !.isLoading = FALSE]
        Failed(message) == [provider EXCEPT !.error = [message |-> message],
                                            !.isLoading = FALSE]
    IN /\ t.pc # "done"
       /\ CASE t.pc \in {"signUpWithEmail", "signInWithEmail"} ->
                 IF outcome = "resolved"
                   THEN ProviderStep(provider,
                          At(IF t.op = "registerUser"
                               THEN "setupMasterPassword"
                               ELSE "SecureVaultManager.unlockVault"))
                   ELSE ProviderStep(Failed("error.message"), At("done"))
            [] t.pc = "setupMasterPassword" ->
                 IF outcome = "rejected"
                   THEN ProviderStep(Failed("error.message"), At("done"))
                   ELSE ProviderStep(SignedIn, At("done"))
            [] t.pc = "SecureVaultManager.unlockVault" ->
                 IF outcome = "success"
                   THEN ProviderStep(SignedIn, At("done"))
                   ELSE ProviderStep(Failed("error.message"), At("done"))
            [] t.pc = "signOutUser" ->
                 IF outcome = "resolved"
                   THEN ProviderStep(SignedOut, At("done"))
                   ELSE ProviderStep(Failed("error.message"), At("done"))
            [] t.pc = "unlockVault" ->
                 CASE outcome = "success" ->
                        ProviderStep([provider EXCEPT !.isVaultUnlocked = TRUE],
                                     At("done"))
                   [] outcome = "requiresSetup" ->
                        ProviderStep([provider EXCEPT !.error =
                          [message |-> "Master password setup required"]],
                          At("done"))
                   [] outcome = "error" ->
                        ProviderStep([provider EXCEPT !.error =
                          [message |-> "result.error"]], At("done"))
                   [] outcome = "none" -> ProviderStep(provider, At("done"))
                   [] outcome = "rejected" ->
                        ProviderStep([provider EXCEPT !.error =
                          [message |-> "Vault unlock failed"]], At("done"))

NextProvider ==
  \/ SessionChecked
  \/ CallRegisterUser
  \/ CallSignIn
  \/ CallSignOut
  \/ CallUnlockVault
  \/ LockVault
  \/ ResumeProvider

SpecProvider == InitProvider /\ [][NextProvider]_vars

(***************************************************************************)
(* Properties                                                              *)
(***************************************************************************)
IsDecrypt == res.op = "decryptData"
IsDecryptWithKey == res.op = "decryptDataWithKey"
IsDerive == res.op = "deriveKeyFromPassword"

\* the stored envelopes a payload is, unaltered
StoredAs(payload) == {i \in 1..Len(envs) : envs[i].payload = payload}

\* the text survives TextEncoder and TextDecoder
Utf8Safe(text) == TextDecode(TextEncode(text)) = text

\* C1: decrypting an envelope right after encryptData produced it, with
\* the password it was encrypted with, returns the plaintext exactly
C1_RoundTrip ==
  (IsDecrypt /\ res.direct) =>
    \A i \in StoredAs(res.payload) :
      envs[i].password = res.password =>
        res.ok /\ res.val = envs[i].plaintext

\* C2: decrypting an envelope with a non-empty password other than the one
\* it was encrypted with fails with the generic decrypt error
C2_WrongPassword ==
  IsDecrypt =>
    \A i \in StoredAs(res.payload) :
      (res.password # envs[i].password /\ Len(res.password) > 0) =>
        ~res.ok /\ res.err = ErrDecrypt

\* the number of positions at which two buffers of equal length differ
DiffCount(a, b) == Cardinality({i \in 1..Len(a) : a[i] # b[i]})

\* payload E2 is envelope E with exactly one byte of its ciphertext, salt
\* or nonce changed and every other field as it was
OneByteDiff(E2, E) ==
  /\ DOMAIN E2 = DOMAIN E
  /\ \E f \in {"data", "iv", "salt"} :
       /\ \A g \in (DOMAIN E) \ {f} : E2[g] = E[g]
       /\ AtobValid(E2[f])
       /\ Len(base64ToArrayBuffer(E2[f])) = Len(base64ToArrayBuffer(E[f]))
       /\ DiffCount(base64ToArrayBuffer(E2[f]), base64ToArrayBuffer(E[f])) = 1

TamperedWithPassword ==
  /\ IsDecrypt
  /\ \E i \in 1..Len(envs) :
       /\ envs[i].kind = "password"
       /\ envs[i].password = res.password
       /\ OneByteDiff(res.payload, envs[i].payload)

\* C3: an envelope with one byte of its ciphertext, salt or nonce changed
\* is never decrypted, not even with the right password
C3_TamperDetected == TamperedWithPassword => ~res.ok

C3_Witness ==
  TamperedWithPassword /\ ~res.ok /\ res.cause = ErrIntegrity

HasAllFields(payload) ==
  {"data", "iv", "salt", "iterations", "algorithm", "checksum"}
    \subseteq DOMAIN payload

Decodable(payload) ==
  AtobValid(payload.data) /\ AtobValid(payload.iv) /\ AtobValid(payload.salt)

\* the payload of the last call is well formed and its checksum is not the
\* digest of its ciphertext, salt and nonce
ChecksumBroken ==
  /\ HasAllFields(res.payload)
  /\ Decodable(res.payload)
  /\ res.payload.checksum #
       Sha256(base64ToArrayBuffer(res.payload.data)
                \o base64ToArrayBuffer(res.payload.salt)
                \o base64ToArrayBuffer(res.payload.iv))

KeyOrCipherCalls == {"keyCache.get", "keyCache.set", "importKey", "deriveKey",
                     "decrypt"}
CallsMade == {res.calls[i] : i \in 1..Len(res.calls)}

\* C4: when the checksum of the payload does not match, decryptData and
\* decryptDataWithKey fail without a key derivation, a cache access or a
\* cipher call, and the key cache is as before
C4_ChecksumFirst ==
  (/\ IsDecrypt \/ IsDecryptWithKey
   /\ IsDecrypt => Len(res.password) > 0
   /\ ChecksumBroken)
    => /\ ~res.ok
       /\ CallsMade \cap KeyOrCipherCalls = {}
       /\ keyCache = res.cacheBefore

C4_Witness ==
  /\ IsDecryptWithKey
  /\ ChecksumBroken
  /\ ~res.ok
  /\ res.calls = <<"atob", "atob", "atob", "digest">>

\* C5: whatever happened on the manager in between, decrypting an intact
\* envelope with its password returns its plaintext (stated for the
\* plaintexts that survive the text encoding, see C1)
C5_AnyOrder ==
  IsDecrypt =>
    \A i \in StoredAs(res.payload) :
      (envs[i].password = res.password /\ Utf8Safe(envs[i].plaintext)) =>
        res.ok /\ res.val = envs[i].plaintext

IterationsOf(options) ==
  IF "iterations" \in DOMAIN options THEN options.iterations
  ELSE defaultIterations

IterationError == {ErrIterLow, ErrIterHigh}

HasPrior == IsDerive /\ res.ok /\ Len(res.prior) > 0
Prior == res.prior[1]

\* the cache entry the last call found under its cache key, if any
FoundKey ==
  createCacheKey(res.password, res.val.salt, res.val.iterations)
FoundExpired ==
  /\ IsDerive
  /\ res.ok
  /\ MapHas(res.cacheBefore, FoundKey)
  /\ res.at - MapGet(res.cacheBefore, FoundKey).timestamp >= 300000

FreshlyDerived ==
  /\ "deriveKey" \in CallsMade
  /\ res.val.timestamp = res.at
  /\ res.val.timestamp # MapGet(res.cacheBefore, FoundKey).timestamp

\* C7 as stated: of two calls with the same arguments made less than 5
\* minutes apart the second returns the SecureKey the first returned, and
\* a call made 5 minutes or more after the timestamp of the cached entry
\* derives afresh
C7_Original ==
  /\ (HasPrior /\ res.at - Prior.at < 300000) => res.val = Prior.val
  /\ FoundExpired => FreshlyDerived

\* C7 amended: a call made less than 5 minutes after the timestamp of the
\* SecureKey that the previous call with the same arguments returned gets
\* that same SecureKey, unless the size limit has evicted the cache entry
\* in between; a call made 5 minutes or more after the timestamp of the
\* cached entry derives afresh and returns a new timestamp
C7_CacheTtl ==
  /\ (/\ HasPrior
      /\ res.at - Prior.val.timestamp < 300000
      /\ ~Prior.evicted) => res.val = Prior.val
  /\ FoundExpired => FreshlyDerived

\* a second call, later but within the time-to-live, was served from the
\* cache
C7_Witness ==
  /\ HasPrior
  /\ res.at > Prior.at
  /\ res.at - Prior.val.timestamp < 300000
  /\ ~Prior.evicted
  /\ res.val = Prior.val
  /\ "deriveKey" \notin CallsMade

\* C8: an entry leaves the cache only when an insertion would make the
\* size exceed 10, it is then the entry inserted earliest, and an
\* insertion under a cache key that is already present removes nothing
C8_EvictOnOverflow ==
  IsDerive =>
    LET removed == MapKeys(res.cacheBefore) \ MapKeys(keyCache)
        added == MapKeys(keyCache) \ MapKeys(res.cacheBefore)
    IN removed # {} =>
         /\ Len(res.cacheBefore) + Cardinality(added) > 10
         /\ removed = {res.cacheBefore[1].k}

\* C9: a decryptData call with a complete payload and a non-empty password
\* that fails, fails with one and the same message, whatever the cause
C9_GenericError ==
  (/\ IsDecrypt
   /\ HasAllFields(res.payload)
   /\ Len(res.password) > 0
   /\ ~res.ok)
    => res.err = "Failed to decrypt data - invalid password or corrupted data"

\* a failure that is not a failed tag verification: the iteration count of
\* the payload is out of range
C9_Witness ==
  /\ IsDecrypt
  /\ HasAllFields(res.payload)
  /\ Len(res.password) > 0
  /\ ~res.ok
  /\ res.cause = ErrIterHigh
  /\ res.err = ErrDecrypt

FieldOrder == <<"data", "iv", "salt", "iterations", "algorithm", "checksum">>
MissingAt(payload) ==
  {i \in 1..Len(FieldOrder) : FieldOrder[i] \notin DOMAIN payload}
FirstMissing(payload) ==
  FieldOrder[CHOOSE i \in MissingAt(payload) :
               \A j \in MissingAt(payload) : i <= j]

\* C10: with a payload that lacks a required field, decryptData and
\* decryptDataWithKey fail with the error that names the first missing
\* field, before any decoding, checksum, key derivation, cache access or
\* cipher call
C10_MissingField ==
  (/\ IsDecrypt \/ IsDecryptWithKey
   /\ MissingAt(res.payload) # {})
    => /\ ~res.ok
       /\ res.err = MissingFieldError(FirstMissing(res.payload))
       /\ res.calls = <<>>
       /\ keyCache = res.cacheBefore

\* two fields are missing and the first of them is named
C10_Witness ==
  /\ IsDecrypt \/ IsDecryptWithKey
  /\ Cardinality(MissingAt(res.payload)) = 2
  /\ ~res.ok
  /\ res.err = "Missing required field: data"

\* the round trip of C1 for the plaintexts that survive the text encoding
RoundTripUtf8Safe ==
  (IsDecrypt /\ res.direct) =>
    \A i \in StoredAs(res.payload) :
      (envs[i].password = res.password /\ Utf8Safe(envs[i].plaintext)) =>
        res.ok /\ res.val = envs[i].plaintext

\* the size limit evicted the entry of an earlier call, and the call
\* repeated within the time-to-live derived afresh
EvictedThenRepeated ==
  /\ HasPrior
  /\ Prior.evicted
  /\ res.at - Prior.val.timestamp < 300000
  /\ res.val # Prior.val

IsCredentialDecrypt == res.op = "decryptCredential"
IsAuthDecrypt == res.op = "auth.decryptData"

\* the text does not parse, parses to something that is not an object, or
\* parses to an object whose ciphertext, nonce or salt is not base64
Malformed(text) ==
  LET p == JSONparse(text)
  IN \/ ~p.ok
     \/ p.kind # "object"
     \/ \E f \in {"data", "iv", "salt"} :
          f \in DOMAIN p.val /\ ~AtobValid(p.val[f])

CryptographicErrors == {ErrDecrypt, ErrDecryptWithKey}

\* C11: decrypting from a malformed string (with a non-empty password, or
\* with a key held) fails, and not with the error that a wrong password or
\* corrupted data gives
C11_MalformedDistinct ==
  (/\ IsCredentialDecrypt \/ IsAuthDecrypt
   /\ IsCredentialDecrypt => Len(res.password) > 0
   /\ IsAuthDecrypt => res.key # Null
   /\ Malformed(res.text))
    => /\ ~res.ok
       /\ res.err \notin CryptographicErrors

\* the serialization of an envelope parses back to the envelope
SerializationRoundTrip ==
  \A i \in 1..Len(envs) :
    envs[i].kind \in {"credential", "auth"} =>
      /\ JSONparse(envs[i].text).ok
      /\ JSONparse(JSONstringify(envs[i].payload)).val = envs[i].payload
      /\ DOMAIN envs[i].payload =
           {PayloadKeyOrder[k] : k \in 1..Len(PayloadKeyOrder)}

\* malformed strings that fail with an error of their own
MalformedRejected ==
  /\ IsCredentialDecrypt \/ IsAuthDecrypt
  /\ Malformed(res.text)
  /\ ~res.ok
  /\ res.err \in {ErrSyntax, ErrType}

IsAuthenticate == res.op = "authenticateUser"

\* C12: authenticateUser with a record of registerUser succeeds with the
\* password of the registration and then returns the encryption key held
\* after the registration; with any other password it returns success =
\* false and no encryptionKey
C12_Authenticate ==
  IsAuthenticate =>
    LET g == auth.regs[res.reg]
    IN IF res.password = g.password
         THEN /\ res.val.success
              /\ "encryptionKey" \in DOMAIN res.val
              /\ res.val.encryptionKey = g.key
              /\ auth.currentEncryptionKey = g.key
         ELSE /\ ~res.val.success
              /\ "encryptionKey" \notin DOMAIN res.val

\* what the code decides on: the UTF-8 encodings of the two passwords
AuthenticateByEncoding ==
  IsAuthenticate =>
    LET g == auth.regs[res.reg]
    IN /\ res.val.success <=> TextEncode(res.password) = TextEncode(g.password)
       /\ res.val.success <=> "encryptionKey" \in DOMAIN res.val
       /\ res.val.success => res.val.encryptionKey = g.key

WrongPasswordRefused ==
  /\ IsAuthenticate
  /\ res.password = PwA
  /\ auth.regs[res.reg].password # PwA
  /\ ~res.val.success

SecureAuthDataFields ==
  {"userEmail", "authHash", "authSalt", "encryptionSalt", "accountCreated",
   "lastLogin", "deviceTrust"}

\* the text fields of a record, and its fields that hold the result of a
\* derivation or of a digest
TextValues(R) == {R.userEmail, R.authSalt, R.encryptionSalt}
DerivedValues(R) ==
  {R.authHash}
    \cup {R.deviceTrust.trustedDevices[k] :
            k \in 1..Len(R.deviceTrust.trustedDevices)}

\* the record has the fields of SecureAuthData and no others, and none of
\* its values is the master password or the encryption key of registration g
RecordClean(R, g) ==
  /\ DOMAIN R = SecureAuthDataFields
  /\ DOMAIN R.deviceTrust = {"trustedDevices", "requiresVerification"}
  /\ g.password \notin TextValues(R)
  /\ g.key \notin DerivedValues(R)

\* C13: no record returned by registerUser or by trustCurrentDevice holds
\* the encryption key or the master password
C13_RecordExcludesKey ==
  /\ \A i \in 1..Len(auth.regs) :
       RecordClean(auth.regs[i].record, auth.regs[i])
  /\ res.op = "registerUser" => RecordClean(res.val, auth.regs[Len(auth.regs)])
  /\ res.op = "trustCurrentDevice" =>
       /\ RecordClean(res.val, auth.regs[res.reg])
       /\ res.val = auth.regs[res.reg].record

\* trustCurrentDevice has added a second device to a record
C13_Witness ==
  /\ res.op = "trustCurrentDevice"
  /\ Len(res.val.deviceTrust.trustedDevices) = 2
  /\ RecordClean(res.val, auth.regs[res.reg])
  /\ auth.currentEncryptionKey = auth.regs[res.reg].key

IsAuthCipherCall == res.op \in {"auth.encryptData", "auth.decryptData"}

\* C14: from clearAuthState until the next successful registerUser or
\* authenticateUser the manager holds no key, and encryptData and
\* decryptData of the manager fail with the no-key error without calling
\* the engine
C14_LockedNoKey ==
  /\ auth.cleared => auth.currentEncryptionKey = Null
  /\ (IsAuthCipherCall /\ res.cleared) =>
       /\ ~res.ok
       /\ res.err = "No encryption key available. Please authenticate first."
       /\ res.calls = <<>>

\* after a lock, a text the manager had encrypted itself is refused
C14_Witness ==
  /\ res.op = "auth.decryptData"
  /\ res.cleared
  /\ \E i \in 1..Len(envs) : envs[i].text = res.text
  /\ ~res.ok
  /\ res.err = ErrNoKey
  /\ auth.currentEncryptionKey = Null

DerivationCalls == {"keyCache.get", "keyCache.set", "importKey", "deriveKey"}

\* the envelopes of encryptDataWithKey that the last decryptDataWithKey
\* call was handed unaltered, together with the key that made them
KeyRoundTrips ==
  {i \in StoredAs(res.payload) : envs[i].kind = "key" /\ envs[i].key = res.key}

\* C15: decryptDataWithKey of an envelope of encryptDataWithKey, with the
\* same key, returns the plaintext, without a key derivation and without
\* access to the key cache
C15_KeyRoundTrip ==
  IsDecryptWithKey =>
    \A i \in KeyRoundTrips :
      /\ res.ok
      /\ res.val = envs[i].plaintext
      /\ CallsMade \cap DerivationCalls = {}
      /\ keyCache = res.cacheBefore

\* the same for the plaintexts that survive the text encoding
KeyRoundTripUtf8Safe ==
  IsDecryptWithKey =>
    \A i \in KeyRoundTrips :
      /\ res.ok
      /\ Utf8Safe(envs[i].plaintext) => res.val = envs[i].plaintext
      /\ CallsMade \cap DerivationCalls = {}
      /\ keyCache = res.cacheBefore

IsEncrypt == res.op = "encryptData"

\* C16: with an empty password encryptData, decryptData and
\* deriveKeyFromPassword fail without drawing a salt or nonce, without a
\* key derivation or cipher call and without a change of the key cache;
\* the empty plaintext with a non-empty password is encrypted
C16_EmptyPassword ==
  /\ ((IsEncrypt \/ IsDecrypt \/ IsDerive) /\ Len(res.password) = 0) =>
       /\ ~res.ok
       /\ res.calls = <<>>
       /\ keyCache = res.cacheBefore
  /\ (/\ IsEncrypt
      /\ Len(res.password) > 0
      /\ res.plaintext = <<>>
      /\ res.options = <<>>) => res.ok

\* the same with the salt that deriveKeyFromPassword draws by default
\* before it validates left aside
EmptyPasswordNoDerivation ==
  ((IsEncrypt \/ IsDecrypt \/ IsDerive) /\ Len(res.password) = 0) =>
    /\ ~res.ok
    /\ res.err = ErrPasswordEmpty
    /\ CallsMade \subseteq {"getRandomValues"}
    /\ IsDerive \/ res.calls = <<>>
    /\ keyCache = res.cacheBefore

SaltOf(i) == base64ToArrayBuffer(envs[i].payload.salt)
NonceOf(i) == base64ToArrayBuffer(envs[i].payload.iv)
CiphertextOf(i) == base64ToArrayBuffer(envs[i].payload.data)
SameInputs(i, j) ==
  /\ envs[i].kind = "password"
  /\ envs[j].kind = "password"
  /\ envs[i].plaintext = envs[j].plaintext
  /\ envs[i].password = envs[j].password

BothKindsProduced ==
  \E i, j \in 1..Len(envs) : envs[i].kind = "password" /\ envs[j].kind = "key"

IsAnalyze == res.op = "analyzePasswordStrength"

\* the penalties in the words of the specification: a run of three equal
\* characters, a common sequence in any case, a denylisted password in any
\* case
FoldCase(u) == IF u >= 65 /\ u <= 90 THEN u + 32 ELSE u
ContainsIgnoringCase(text, word) ==
  \E off \in 0..(Len(text) - Len(word)) :
    \A k \in 1..Len(word) : FoldCase(text[off + k]) = word[k]
HasRun(text) ==
  \E i \in 1..(Len(text) - 2) : text[i + 1] = text[i] /\ text[i + 2] = text[i]
HasCommonSequence(text) ==
  \E w \in {<<49, 50, 51>>, <<97, 98, 99>>, <<113, 119, 101>>} :
    ContainsIgnoringCase(text, w)
HasDenylisted(text) ==
  \E n \in 1..Len(commonPasswords) :
    ContainsIgnoringCase(text, commonPasswords[n])

StrongCandidate(text) ==
  /\ Len(text) >= 16
  /\ charTypes(text) = 4
  /\ ~HasRun(text)
  /\ ~HasCommonSequence(text)
  /\ ~HasDenylisted(text)

GoodOrAbove == {"Good", "Strong", "Very Strong"}

\* C18: a password of 16 or more characters with all four character
\* classes and none of the penalties scores at least 80 and is labelled
\* Good or above
C18_StrongPassword ==
  (IsAnalyze /\ StrongCandidate(res.password)) =>
    /\ res.val.score >= 80
    /\ res.val.strength \in GoodOrAbove

\* what such a password does get: 25 for its length, 40 for its classes
StrongPasswordScores65 ==
  (IsAnalyze /\ StrongCandidate(res.password)) =>
    /\ res.val.score = 65
    /\ res.val.strength = "Good"

\* no password scores more
ScoreAtMost65 == IsAnalyze => res.val.score <= 65

PassphraseAnalyzed == IsAnalyze /\ res.password = Passphrase

\* the label the thresholds of the specification give to a score
ThresholdLabel(score) ==
  CASE score < 20 -> "Very Weak"
    [] score >= 20 /\ score < 40 -> "Weak"
    [] score >= 40 /\ score < 60 -> "Fair"
    [] score >= 60 /\ score < 80 -> "Good"
    [] score >= 80 /\ score < 90 -> "Strong"
    [] score >= 90 -> "Very Strong"

\* the sum of the specification before it is clamped
RawScore(text) ==
  lengthScore(Len(text)) + 10 * charTypes(text)
    - (IF HasRun(text) THEN 10 ELSE 0)
    - (IF HasCommonSequence(text) THEN 15 ELSE 0)
    - (IF HasDenylisted(text) THEN 25 ELSE 0)

\* C19: the strength label of a report is the one the thresholds assign
\* to the score of the report, which lies within 0..100
C19_LabelOfScore ==
  IsAnalyze =>
    /\ res.val.score >= 0
    /\ res.val.score <= 100
    /\ res.val.strength = ThresholdLabel(res.val.score)

\* a report whose score sits on a threshold, and one whose sum was below 0
C19_Witness ==
  /\ IsAnalyze
  /\ res.val.score \in {20, 40, 60}

ClampedFromBelow ==
  /\ IsAnalyze
  /\ RawScore(res.password) < 0
  /\ res.val.score = 0
  /\ res.val.strength = "Very Weak"

ScoreIs20 == IsAnalyze /\ res.val.score = 20 /\ res.val.strength = "Weak"
ScoreIs40 == IsAnalyze /\ res.val.score = 40 /\ res.val.strength = "Fair"
ScoreIs60 == IsAnalyze /\ res.val.score = 60 /\ res.val.strength = "Good"

ClampTo(lo, hi, x) == IF x < lo THEN lo ELSE IF x > hi THEN hi ELSE x

HasLineTerminator(text) ==
  \E i \in 1..Len(text) : text[i] \in {10, 13, 8232, 8233}

\* C20: the score of a report is the clamp to 0..100 of the length points
\* plus 10 per character class present, minus 10 for a character that
\* occurs three or more times in a row, minus 15 for a common sequence in
\* any case, minus 25 for a denylisted password
C20_ScoreFormula ==
  IsAnalyze => res.val.score = ClampTo(0, 100, RawScore(res.password))

\* the same for the passwords that hold no line terminator
ScoreFormulaOnOneLine ==
  (IsAnalyze /\ ~HasLineTerminator(res.password)) =>
    res.val.score = ClampTo(0, 100, RawScore(res.password))

\* a password that holds a line terminator differs from the formula at
\* most by the 10 points of the repetition penalty
ScoreFormulaUpToRun ==
  IsAnalyze =>
    \/ res.val.score = ClampTo(0, 100, RawScore(res.password))
    \/ /\ HasRun(res.password)
       /\ res.val.score = ClampTo(0, 100, RawScore(res.password) + 10)

\* every term of the sum has been exercised
PenalisedThreeTimes ==
  /\ IsAnalyze
  /\ Len(res.val.feedback) >= 3
  /\ HasRun(res.password) /\ HasCommonSequence(res.password)
  /\ HasDenylisted(res.password)

IsAppConfigRead(prop) == res.op = "appConfig" /\ res.prop = prop

KnownEnvironments == {"development", "production", "test"}

\* C21: reading appConfig never throws, appConfig.firebase is an object
\* whose apiKey is a string and appConfig.environment is one of
\* development, production and test, whatever the environment variables
\* are and whether or not initialize succeeds
C21_UsableConfig ==
  /\ res.op = "appConfig" => res.ok
  /\ IsAppConfigRead("firebase") => res.val.apiKey \in Seq(Nat)
  /\ IsAppConfigRead("environment") => res.val \in KnownEnvironments

\* the same where the environment variables name a known environment
UsableConfigKnownEnvironment ==
  /\ res.op = "appConfig" => res.ok
  /\ IsAppConfigRead("firebase") => res.val.apiKey \in Seq(Nat)
  /\ (/\ IsAppConfigRead("environment")
      /\ EnvText(cfg.env, "NEXT_PUBLIC_APP_ENV",
                 EnvText(cfg.env, "NODE_ENV", "development"))
           \in KnownEnvironments) => res.val \in KnownEnvironments

\* the proxy has fallen back after initialize threw
FellBackAfterThrow ==
  /\ res.op = "appConfig"
  /\ cfg.cached = getFallbackConfig
  /\ cfg.manager.initializationError # Null
  /\ ~cfg.isBrowser

IsInitialize == res.op = "initialize"

ResolvedEnvironment ==
  EnvText(cfg.env, "NEXT_PUBLIC_APP_ENV", EnvText(cfg.env, "NODE_ENV", "development"))

\* a required Firebase variable is not set or does not hold a well-formed
\* value
FirebaseIncomplete ==
  \E n \in DOMAIN FirebaseValid :
    n \notin DOMAIN cfg.env \/ cfg.env[n] # FirebaseValid[n]

\* C22: in production with a required NEXT_PUBLIC_FIREBASE_* variable
\* absent or malformed, initialize() throws and hands no configuration to
\* its caller, in the browser as on the server
C22_ProductionRejects ==
  (IsInitialize /\ ResolvedEnvironment = "production" /\ FirebaseIncomplete) =>
    /\ ~res.ok
    /\ res.val = Null

\* the same on the server alone
ProductionRejectsOnServer ==
  (/\ IsInitialize
   /\ ResolvedEnvironment = "production"
   /\ FirebaseIncomplete
   /\ ~cfg.isBrowser) =>
    /\ ~res.ok
    /\ res.val = Null
    /\ res.err.message # NoError

\* C28: once initialize() has returned a configuration, every later
\* getConfig(), isProduction() and isDevelopment() returns without
\* throwing, and getConfig() returns that configuration
C28_InitializedStays ==
  \A i \in 1..(Len(hist) - 1) :
    (hist[i].op = "initialize" /\ hist[i].ok /\ res.op \in {"getConfig", "is"}) =>
      /\ res.ok
      /\ res.op = "getConfig" => res.val = hist[i].val

\* the same for the configurations that passed validation
ValidatedStays ==
  \A i \in 1..(Len(hist) - 1) :
    (/\ hist[i].op = "initialize"
     /\ hist[i].ok
     /\ hist[i].val # getFallbackConfig
     /\ res.op \in {"getConfig", "is"}) =>
      /\ res.ok
      /\ res.op = "getConfig" => res.val = hist[i].val

ReadAfterValidated ==
  /\ res.op = "getConfig"
  /\ res.ok
  /\ \E i \in 1..(Len(hist) - 1) : hist[i].op = "initialize" /\ hist[i].ok

\* C23: under every interleaving of deriveKeyFromPassword, encryptData and
\* decryptData calls, each suspended at any of its awaits, the key cache
\* never holds more than maxCacheSize entries
C23_CacheBounded == Len(keyCache) <= maxCacheSize

InFlight(i) == tasks[i].pc # "done"

\* a full cache after two calls that overlapped have each stored a key,
\* one of them still in flight
FullCacheWhileInFlight ==
  /\ Len(keyCache) = maxCacheSize
  /\ \E i, j \in 1..Len(tasks) :
       /\ i \in tasks[j].pending
       /\ tasks[i].derived
       /\ tasks[j].derived
       /\ InFlight(j)

\* C24: of two deriveKeyFromPassword calls with the same password, salt
\* and iterations that overlap, at most one runs PBKDF2 and stores a key
\* in the cache, and both return the same SecureKey
SameDerivation(i, j) ==
  /\ tasks[i].op = "derive"
  /\ tasks[j].op = "derive"
  /\ tasks[i].password = tasks[j].password
  /\ tasks[i].options = tasks[j].options

C24_SingleDerivation ==
  \A j \in 1..Len(tasks) : \A i \in tasks[j].pending :
    SameDerivation(i, j) =>
      /\ ~(tasks[i].derived /\ tasks[j].derived)
      /\ (~InFlight(i) /\ ~InFlight(j) /\ tasks[i].ok /\ tasks[j].ok) =>
           tasks[i].val = tasks[j].val

\* C25: a SecureKey returned by deriveKeyFromPassword(password, {salt,
\* iterations, keyLength}), fresh or from the cache, carries the requested
\* salt, iterations and key length and wraps the key derived from the whole
\* password, the whole salt and that key length
C25_ReturnedKeyMatches ==
  (/\ res.op = "deriveKeyFromPassword"
   /\ res.ok
   /\ {"salt", "iterations"} \subseteq DOMAIN res.options) =>
    LET q == Resolved(0, defaultIterations, res.options)
    IN /\ res.val.salt = q.salt
       /\ res.val.iterations = q.iterations
       /\ res.val.keyLength = q.keyLength
       /\ res.val.key = Pbkdf2(TextEncode(res.password), q.salt,
                               q.iterations, q.keyLength)

\* C26: an authenticateUser attempt that fails, by a hash mismatch or by an
\* exception, leaves currentEncryptionKey as it was, and encryptData and
\* decryptData then behave as they would have before the attempt
AttemptFailed == res.op = "authenticateUser" /\ ~res.val.success

C26_FailedAttemptKeepsKey ==
  [][(res'.op = "authenticateUser" /\ ~res'.val.success) =>
       /\ auth'.currentEncryptionKey = auth.currentEncryptionKey
       /\ \A data \in {<<>>, <<115>>} :
            authEncryptData(rng', sealed', auth'.currentEncryptionKey, data)
              = authEncryptData(rng, sealed, auth.currentEncryptionKey, data)
       /\ \A i \in 1..Len(envs) :
            authDecryptData(sealed', auth'.currentEncryptionKey, envs[i].text)
              = authDecryptData(sealed, auth.currentEncryptionKey,
                                envs[i].text)]_vars

\* a wrong password while a key is installed and a text is stored
MismatchWithKeyInstalled ==
  /\ AttemptFailed
  /\ "incomplete" \notin DOMAIN res
  /\ auth.currentEncryptionKey # Null
  /\ Len(envs) > 0

\* the right password with a record that makes the attempt throw
ThrownWithKeyInstalled ==
  /\ AttemptFailed
  /\ "incomplete" \in DOMAIN res
  /\ res.password = auth.regs[res.reg].password
  /\ auth.currentEncryptionKey # Null

\* C27: after clearAuthState(), currentEncryptionKey stays null until a
\* registerUser or authenticateUser call started after it has succeeded; a
\* call that was in flight when clearAuthState() ran installs no key
C27_ClearedStaysCleared ==
  (cnt.session > 0 /\ auth.currentEncryptionKey # Null) =>
    \E i \in 1..Len(tasks) :
      /\ tasks[i].pc = "done"
      /\ tasks[i].ok
      /\ tasks[i].epoch = cnt.session

\* C29: a getItem that returns null because the item could not be
\* decrypted leaves the stored item as it was, metadata.lastAccessed
\* included
C29_FailedReadLeavesItem ==
  (res.op = "getItem" /\ res.isNull /\ res.at = "decrypt") =>
    store = res.before

\* C30: in every state of the AuthProvider, whatever the sequence of
\* registerUser, signIn, signOut, lockVault and unlockVault, an unlocked
\* vault implies a signed-in user
C30_UnlockedImpliesAuthenticated ==
  provider.isVaultUnlocked => provider.isAuthenticated

\* the vault is unlocked for nobody by an unlockVault that was called while
\* a user was signed in
UnlockedAfterSignOut ==
  /\ provider.isVaultUnlocked
  /\ ~provider.isAuthenticated
  /\ \A i \in 1..Len(tasks) :
       tasks[i].op = "unlockVault" => tasks[i].signedIn

====
